---- MODULE Spec2Model ----
(***************************************************************************)
(* Model of the virtus-backend core: the skill registry and executor, the  *)
(* orchestrator agent, and the onboarding step engine (service functions,  *)
(* the SkillOnboardingShort wrapper and the /onboarding endpoints).        *)
(*                                                                         *)
(* Text is modelled as a sequence of one-character strings so that strip,  *)
(* substring search, split and lower-casing are computed as the code       *)
(* computes them.  Timestamps are integers counted in days.                *)
(***************************************************************************)
EXTENDS Integers, Sequences, FiniteSets, TLC

(* ------------------------------ bounds -------------------------------- *)
\* Largest value of the clock (days since the model's epoch).
MaxTime == 2
\* Number of distinct instances of each skill class.
MaxInstances == 2

(* ----------------------------- sentinels ------------------------------ *)
\* Python None in a string-typed slot (current_step, error, next_step ...).
NoneStr == "None"
\* Python None in a timestamp slot.
NoneTime == -1

(* --------------------------- text primitives -------------------------- *)
WhiteSpace == {" ", "\n", "\t"}

\* The first position at or after i that holds no whitespace (Len(s)+1 if none).
RECURSIVE FirstInk(_, _)
FirstInk(s, i) ==
  IF i > Len(s) THEN i ELSE IF s[i] \notin WhiteSpace THEN i ELSE FirstInk(s, i + 1)

\* The last position at or before i that holds no whitespace (0 if none).
RECURSIVE LastInk(_, _)
LastInk(s, i) ==
  IF i < 1 THEN 0 ELSE IF s[i] \notin WhiteSpace THEN i ELSE LastInk(s, i - 1)

\* str.strip()
strip(s) == SubSeq(s, FirstInk(s, 1), LastInk(s, Len(s)))

\* Does sub occur in s at position i?
RECURSIVE OccursAt(_, _, _, _)
OccursAt(sub, s, i, k) ==
  \/ k > Len(sub)
  \/ /\ i + k - 1 <= Len(s)
     /\ s[i + k - 1] = sub[k]
     /\ OccursAt(sub, s, i, k + 1)

\* str.find(sub, i): the first position at or after i where sub occurs, 0 if none.
RECURSIVE find(_, _, _)
find(sub, s, i) ==
  IF i + Len(sub) - 1 > Len(s) THEN 0
  ELSE IF OccursAt(sub, s, i, 1) THEN i
  ELSE find(sub, s, i + 1)

\* `sub in s`
contains(sub, s) == find(sub, s, 1) # 0

\* str.split(sep) for a non-empty separator
RECURSIVE split(_, _)
split(s, sep) ==
  LET i == find(sep, s, 1)
  IN  IF i = 0 THEN <<s>>
      ELSE <<SubSeq(s, 1, i - 1)>> \o split(SubSeq(s, i + Len(sep), Len(s)), sep)

UpperAlphabet == <<"A","B","C","D","E","F","G","H","I","J","K","L","M",
                   "N","O","P","Q","R","S","T","U","V","W","X","Y","Z">>
LowerAlphabet == <<"a","b","c","d","e","f","g","h","i","j","k","l","m",
                   "n","o","p","q","r","s","t","u","v","w","x","y","z">>

UpperChars == {UpperAlphabet[i] : i \in 1..26}
LowerChars == {LowerAlphabet[i] : i \in 1..26}

LowerOf == [c \in UpperChars |-> LowerAlphabet[CHOOSE i \in 1..26 : UpperAlphabet[i] = c]]

lower_char(c) == IF c \in UpperChars THEN LowerOf[c] ELSE c

\* str.lower()
lower(s) == [i \in 1..Len(s) |-> lower_char(s[i])]

\* The character class [A-Za-z_]
WordChars == UpperChars \cup LowerChars \cup {"_"}

SetMin(S) == CHOOSE x \in S : \A y \in S : x <= y

(* ------------------------------ dicts --------------------------------- *)
\* A Python dict is a function whose domain is its set of keys.
EmptyDict == [k \in {} |-> 0]

\* dict.update(new) on a copy of d
dict_update(d, new) ==
  [k \in (DOMAIN d) \cup (DOMAIN new) |-> IF k \in DOMAIN new THEN new[k] ELSE d[k]]

\* A nullable JSONB column: isNone tells None from a dict.
NoneData == [isNone |-> TRUE, d |-> EmptyDict]
DictData(d) == [isNone |-> FALSE, d |-> d]

(* ------------------- onboarding steps (skill side) -------------------- *)
STEP_SEQUENCE == <<"welcome", "name", "goals", "preferences", "conclusion">>

OnboardingStep == {STEP_SEQUENCE[i] : i \in 1..Len(STEP_SEQUENCE)}

STEP_DEFINITIONS ==
  [s \in OnboardingStep |->
     [validation_required |-> s \in {"name", "goals", "preferences"},
      extract_data        |-> s \in {"name", "goals", "preferences"}]]

IndexOf(seq, x) == CHOOSE i \in 1..Len(seq) : seq[i] = x

\* get_next_step that wraps around at the end of the sequence.
get_next_step_wraps(current_step) ==
  IF current_step \notin OnboardingStep THEN NoneStr
  ELSE STEP_SEQUENCE[(IndexOf(STEP_SEQUENCE, current_step) % Len(STEP_SEQUENCE)) + 1]

get_next_step(current_step) ==
  IF current_step \notin OnboardingStep THEN NoneStr
  ELSE LET next_index == IndexOf(STEP_SEQUENCE, current_step) + 1
       IN  IF next_index <= Len(STEP_SEQUENCE) THEN STEP_SEQUENCE[next_index]
           ELSE NoneStr

get_step_from_string(step_str) ==
  IF step_str \in OnboardingStep THEN step_str ELSE NoneStr

(* ---------------------- validators and extractors --------------------- *)
NameMinLen == 2
NameMaxLen == 100
GoalsMinLen == 5

Verdict(ok, msg) == [is_valid |-> ok, error |-> msg]

\* validate_name that rejects a short name without a message.
validate_name_silent(name) ==
  LET stripped == strip(name)
  IN  IF name = <<>> \/ stripped = <<>> THEN Verdict(FALSE, "Por favor, me diga seu nome.")
      ELSE IF Len(stripped) < NameMinLen THEN Verdict(FALSE, "")
      ELSE IF Len(stripped) > NameMaxLen
           THEN Verdict(FALSE, "O nome deve ter no máximo 100 caracteres.")
      ELSE Verdict(TRUE, NoneStr)

validate_name(name) ==
  LET stripped == strip(name)
  IN  IF name = <<>> \/ stripped = <<>> THEN Verdict(FALSE, "Por favor, me diga seu nome.")
      ELSE IF Len(stripped) < NameMinLen
           THEN Verdict(FALSE, "O nome deve ter pelo menos 2 caracteres.")
      ELSE IF Len(stripped) > NameMaxLen
           THEN Verdict(FALSE, "O nome deve ter no máximo 100 caracteres.")
      ELSE Verdict(TRUE, NoneStr)

extract_name(text) == strip(text)

validate_goals(goals_text) ==
  LET stripped == strip(goals_text)
  IN  IF goals_text = <<>> \/ stripped = <<>>
      THEN Verdict(FALSE, "Por favor, me conte pelo menos um objetivo.")
      ELSE IF Len(stripped) < GoalsMinLen
           THEN Verdict(FALSE, "Descreva seus objetivos com um pouco mais de detalhe.")
      ELSE Verdict(TRUE, NoneStr)

\* extract_goals that tries the conjunction before the comma.
extract_goals_conjunction_first(text) ==
  LET normalized == strip(text)
  IN  IF contains(<<" ","e"," ">>, normalized)
      THEN SelectSeq([i \in 1..Len(split(normalized, <<" ","e"," ">>)) |->
                        strip(split(normalized, <<" ","e"," ">>)[i])],
                     LAMBDA g : g # <<>>)
      ELSE IF contains(<<",">>, normalized)
      THEN SelectSeq([i \in 1..Len(split(normalized, <<",">>)) |->
                        strip(split(normalized, <<",">>)[i])],
                     LAMBDA g : g # <<>>)
      ELSE IF contains(<<"\n">>, normalized)
      THEN SelectSeq([i \in 1..Len(split(normalized, <<"\n">>)) |->
                        strip(split(normalized, <<"\n">>)[i])],
                     LAMBDA g : g # <<>>)
      ELSE <<normalized>>

\* [g.strip() for g in parts if g.strip()]
StripNonEmpty(parts) ==
  SelectSeq([i \in 1..Len(parts) |-> strip(parts[i])], LAMBDA g : g # <<>>)

K_comma == <<",">>
K_e == <<" ","e"," ">>
K_nl == <<"\n">>

extract_goals(text) ==
  LET normalized == strip(text)
  IN  IF contains(K_comma, normalized) THEN StripNonEmpty(split(normalized, K_comma))
      ELSE IF contains(K_e, normalized) THEN StripNonEmpty(split(normalized, K_e))
      ELSE IF contains(K_nl, normalized) THEN StripNonEmpty(split(normalized, K_nl))
      ELSE <<normalized>>

R_America == <<"A","m","e","r","i","c","a">>
R_Europe == <<"E","u","r","o","p","e">>
R_Asia == <<"A","s","i","a">>
R_Africa == <<"A","f","r","i","c","a">>
R_Pacific == <<"P","a","c","i","f","i","c">>
R_Australia == <<"A","u","s","t","r","a","l","i","a">>

\* The alternation (America|Europe|Asia|Africa|Pacific|Australia)
TimezoneRegions == {R_America, R_Europe, R_Asia, R_Africa, R_Pacific, R_Australia}

\* Does timezone_pattern match at position i with region r?
\* The region, "/", then at least one of [A-Za-z_].
MatchesAt(text, i, r) ==
  /\ i + Len(r) + 1 <= Len(text)
  /\ OccursAt(r, text, i, 1)
  /\ text[i + Len(r)] = "/"
  /\ text[i + Len(r) + 1] \in WordChars

\* The end of the greedy run of [A-Za-z_] that starts at position j.
RECURSIVE RunEnd(_, _)
RunEnd(text, j) ==
  IF j + 1 <= Len(text) /\ text[j + 1] \in WordChars THEN RunEnd(text, j + 1) ELSE j

\* re.search(timezone_pattern, text) from position i on: the leftmost match,
\* or << >> for no match.
RECURSIVE timezone_search_from(_, _)
timezone_search_from(text, i) ==
  IF i > Len(text) THEN <<>>
  ELSE IF \E r \in TimezoneRegions : MatchesAt(text, i, r)
       THEN LET r == CHOOSE q \in TimezoneRegions : MatchesAt(text, i, q)
            IN  SubSeq(text, i, RunEnd(text, i + Len(r) + 1))
       ELSE timezone_search_from(text, i + 1)

timezone_search(text) == timezone_search_from(text, 1)

K_sao_paulo_til == <<"s","ã","o"," ","p","a","u","l","o">>
K_sao_paulo == <<"s","a","o"," ","p","a","u","l","o">>
K_brasilia == <<"b","r","a","s","i","l","i","a">>
K_brasilia_acc == <<"b","r","a","s","í","l","i","a">>
K_utc == <<"u","t","c">>
K_en == <<"e","n">>
K_english == <<"e","n","g","l","i","s","h">>
K_ingles == <<"i","n","g","l","ê","s">>
TZ_UTC == <<"U","T","C">>
TZ_America_Sao_Paulo == <<"A","m","e","r","i","c","a","/","S","a","o","_","P","a","u","l","o">>
TZ_Europe_Lisbon == <<"E","u","r","o","p","e","/","L","i","s","b","o","n">>

\* The keys of the host timezone database that the inputs of the model can name.
ZoneInfoKeys == {TZ_UTC, TZ_America_Sao_Paulo, TZ_Europe_Lisbon}

extract_language(text) ==
  LET text_lower == lower(text)
  IN  IF \/ contains(K_en, text_lower)
         \/ contains(K_english, text_lower)
         \/ contains(K_ingles, text_lower)
      THEN "en" ELSE "pt-BR"

extract_preferences(text) ==
  LET timezone_match == timezone_search(text)
      text_lower == lower(text)
      tz == IF timezone_match # <<>> THEN timezone_match
            ELSE IF contains(K_sao_paulo_til, text_lower) \/ contains(K_sao_paulo, text_lower)
                 THEN TZ_America_Sao_Paulo
            ELSE IF contains(K_brasilia, text_lower) \/ contains(K_brasilia_acc, text_lower)
                 THEN TZ_America_Sao_Paulo
            ELSE IF contains(K_utc, text_lower) THEN TZ_UTC
            ELSE <<>>
      lang == [language |-> extract_language(text)]
  IN  IF tz = <<>> THEN lang ELSE dict_update([timezone |-> tz], lang)

validate_preferences(prefs_text) ==
  IF prefs_text = <<>> \/ strip(prefs_text) = <<>>
  THEN Verdict(FALSE, "Por favor, informe seu fuso horário.")
  ELSE LET prefs == extract_preferences(prefs_text)
       IN  IF "timezone" \notin DOMAIN prefs
           THEN Verdict(FALSE, "Não consegui identificar o fuso horário. Use o formato: America/Sao_Paulo")
           ELSE IF prefs["timezone"] \notin ZoneInfoKeys
                THEN Verdict(FALSE, "Fuso horário não reconhecido. Use o formato: America/Sao_Paulo")
           ELSE Verdict(TRUE, NoneStr)

validate_welcome(response) == Verdict(TRUE, NoneStr)

validate_conclusion(response) == Verdict(TRUE, NoneStr)

\* STEP_VALIDATORS[step](text)
STEP_VALIDATORS(step, text) ==
  CASE step = "welcome"     -> validate_welcome(text)
    [] step = "name"        -> validate_name(text)
    [] step = "goals"       -> validate_goals(text)
    [] step = "preferences" -> validate_preferences(text)
    [] step = "conclusion"  -> validate_conclusion(text)

\* The keys of STEP_EXTRACTORS
ExtractorSteps == {"name", "goals", "preferences"}

\* STEP_EXTRACTORS[step](text)
STEP_EXTRACTORS(step, text) ==
  CASE step = "name"        -> [name |-> extract_name(text)]
    [] step = "goals"       -> [goals |-> extract_goals(text)]
    [] step = "preferences" -> extract_preferences(text)

(* ------------------------ onboarding service -------------------------- *)
ONBOARDING_STEPS == <<"welcome", "name", "goals", "preferences", "conclusion">>

STEP_PROGRESS ==
  [s \in {"welcome", "name", "goals", "preferences", "conclusion"} |->
     CASE s = "welcome" -> 0 [] s = "name" -> 20 [] s = "goals" -> 40
       [] s = "preferences" -> 60 [] s = "conclusion" -> 80]

OnboardingStatus == {"NOT_STARTED", "IN_PROGRESS", "COMPLETED"}

\* The onboarding columns of a UserProfile row at user creation.
NewProfile ==
  [onboarding_status       |-> "NOT_STARTED",
   onboarding_started_at   |-> NoneTime,
   onboarding_completed_at |-> NoneTime,
   onboarding_current_step |-> NoneStr,
   onboarding_data         |-> NoneData]

\* What a service function hands back: the row as committed, or an
\* HTTPException (raised = TRUE) with its status code and detail.
Returned(p) == [raised |-> FALSE, status_code |-> 200, detail |-> NoneStr, profile |-> p]
HTTPException(code, detail, p) ==
  [raised |-> TRUE, status_code |-> code, detail |-> detail, profile |-> p]

AlreadyCompleted == "Onboarding already completed for this user"

\* start_onboarding without the initialisation of onboarding_data.
start_onboarding_keeps_data(p, t) ==
  IF p.onboarding_status = "COMPLETED"
  THEN HTTPException(400, AlreadyCompleted, p)
  ELSE Returned([p EXCEPT !.onboarding_status = "IN_PROGRESS",
                          !.onboarding_started_at = t,
                          !.onboarding_current_step = "welcome"])

\* start_onboarding without the COMPLETED guard.
start_onboarding_unguarded(p, t) ==
  Returned([p EXCEPT !.onboarding_status = "IN_PROGRESS",
                     !.onboarding_started_at = t,
                     !.onboarding_current_step = "welcome",
                     !.onboarding_data = DictData(EmptyDict)])

start_onboarding(p, t) ==
  IF p.onboarding_status = "COMPLETED"
  THEN HTTPException(400, AlreadyCompleted, p)
  ELSE Returned([p EXCEPT !.onboarding_status = "IN_PROGRESS",
                          !.onboarding_started_at = t,
                          !.onboarding_current_step = "welcome",
                          !.onboarding_data = DictData(EmptyDict)])

get_onboarding_state(p) ==
  [status           |-> p.onboarding_status,
   current_step     |-> p.onboarding_current_step,
   progress_percent |-> IF p.onboarding_status = "COMPLETED" THEN 100
                        ELSE IF p.onboarding_current_step = NoneStr THEN 0
                        ELSE IF p.onboarding_current_step \in DOMAIN STEP_PROGRESS
                             THEN STEP_PROGRESS[p.onboarding_current_step]
                        ELSE 0,
   started_at       |-> p.onboarding_started_at,
   completed_at     |-> p.onboarding_completed_at,
   data             |-> p.onboarding_data.d]

HistoryEntry(step, t, user_response) ==
  [step |-> step, timestamp |-> t, user_response |-> user_response]

\* save_step_response that stores the new data in place of the collected data.
save_step_response_replaces(p, step, data, has_response, user_response, t) ==
  LET history == IF "conversation_history" \in DOMAIN data
                 THEN data["conversation_history"] ELSE <<>>
      current_data ==
        IF has_response
        THEN dict_update(data,
               [conversation_history |->
                  Append(history, HistoryEntry(step, t, user_response))])
        ELSE data
  IN  [p EXCEPT !.onboarding_data = DictData(current_data)]

\* has_response is `user_response is not None`.
save_step_response(p, step, data, has_response, user_response, t) ==
  LET merged  == dict_update(p.onboarding_data.d, data)
      history == IF "conversation_history" \in DOMAIN merged
                 THEN merged["conversation_history"] ELSE <<>>
      current_data ==
        IF has_response
        THEN dict_update(merged,
               [conversation_history |->
                  Append(history, HistoryEntry(step, t, user_response))])
        ELSE merged
  IN  [p EXCEPT !.onboarding_data = DictData(current_data)]

\* complete_onboarding that sets the status and forgets the timestamp.
complete_onboarding_no_timestamp(p, t) ==
  [p EXCEPT !.onboarding_status = "COMPLETED"]

complete_onboarding(p, t) ==
  [p EXCEPT !.onboarding_status = "COMPLETED", !.onboarding_completed_at = t]

\* advance_step with an off-by-one successor index.
advance_step_off_by_one(p, t) ==
  LET current_step == p.onboarding_current_step
  IN  IF current_step = NoneStr
      THEN [p EXCEPT !.onboarding_current_step = ONBOARDING_STEPS[1]]
      ELSE IF current_step = "conclusion"
      THEN complete_onboarding(p, t)
      ELSE LET next_index == IndexOf(ONBOARDING_STEPS, current_step) + 2
           IN  IF next_index <= Len(ONBOARDING_STEPS)
               THEN [p EXCEPT !.onboarding_current_step = ONBOARDING_STEPS[next_index]]
               ELSE complete_onboarding(p, t)

\* advance_step that stays at conclusion instead of completing.
advance_step_never_completes(p, t) ==
  LET current_step == p.onboarding_current_step
  IN  IF current_step = NoneStr
      THEN [p EXCEPT !.onboarding_current_step = ONBOARDING_STEPS[1]]
      ELSE IF current_step = "conclusion"
      THEN p
      ELSE [p EXCEPT !.onboarding_current_step =
              ONBOARDING_STEPS[IndexOf(ONBOARDING_STEPS, current_step) + 1]]

advance_step(p, t) ==
  LET current_step == p.onboarding_current_step
  IN  IF current_step = NoneStr
      THEN [p EXCEPT !.onboarding_current_step = ONBOARDING_STEPS[1]]
      ELSE IF current_step = "conclusion"
      THEN complete_onboarding(p, t)
      ELSE IF \E i \in 1..Len(ONBOARDING_STEPS) : ONBOARDING_STEPS[i] = current_step
      THEN LET next_index == IndexOf(ONBOARDING_STEPS, current_step) + 1
           IN  IF next_index <= Len(ONBOARDING_STEPS)
               THEN [p EXCEPT !.onboarding_current_step = ONBOARDING_STEPS[next_index]]
               ELSE complete_onboarding(p, t)
      ELSE [p EXCEPT !.onboarding_current_step = ONBOARDING_STEPS[1]]

\* check_session_timeout that also resets a session exactly max_days old.
check_session_timeout_inclusive(p, max_days, t) ==
  IF p.onboarding_status # "IN_PROGRESS"
  THEN [was_reset |-> FALSE, profile |-> p]
  ELSE IF p.onboarding_started_at # NoneTime /\ t - p.onboarding_started_at >= max_days
  THEN [was_reset |-> TRUE,
        profile   |-> [p EXCEPT !.onboarding_status = "NOT_STARTED",
                                !.onboarding_started_at = NoneTime,
                                !.onboarding_current_step = NoneStr,
                                !.onboarding_data = NoneData]]
  ELSE [was_reset |-> FALSE, profile |-> p]

\* check_session_timeout that keeps the collected data when it resets.
check_session_timeout_keeps_step(p, max_days, t) ==
  IF p.onboarding_status # "IN_PROGRESS"
  THEN [was_reset |-> FALSE, profile |-> p]
  ELSE IF p.onboarding_started_at # NoneTime /\ t - p.onboarding_started_at > max_days
  THEN [was_reset |-> TRUE,
        profile   |-> [p EXCEPT !.onboarding_status = "NOT_STARTED",
                                !.onboarding_started_at = NoneTime,
                                !.onboarding_data = NoneData]]
  ELSE [was_reset |-> FALSE, profile |-> p]

\* The row after the call, and whether the call reported a reset.
check_session_timeout(p, max_days, t) ==
  IF p.onboarding_status # "IN_PROGRESS"
  THEN [was_reset |-> FALSE, profile |-> p]
  ELSE IF p.onboarding_started_at # NoneTime /\ t - p.onboarding_started_at > max_days
  THEN [was_reset |-> TRUE,
        profile   |-> [p EXCEPT !.onboarding_status = "NOT_STARTED",
                                !.onboarding_started_at = NoneTime,
                                !.onboarding_current_step = NoneStr,
                                !.onboarding_data = NoneData]]
  ELSE [was_reset |-> FALSE, profile |-> p]

\* reset_onboarding that leaves the completion timestamp.
reset_onboarding_keeps_completed_at(p) ==
  [p EXCEPT !.onboarding_status = "NOT_STARTED",
            !.onboarding_started_at = NoneTime,
            !.onboarding_current_step = NoneStr,
            !.onboarding_data = NoneData]

reset_onboarding(p) ==
  [p EXCEPT !.onboarding_status = "NOT_STARTED",
            !.onboarding_started_at = NoneTime,
            !.onboarding_current_step = NoneStr,
            !.onboarding_data = NoneData,
            !.onboarding_completed_at = NoneTime]

\* skip_onboarding that forgets the completion timestamp.
skip_onboarding_no_timestamp(p, t) ==
  IF p.onboarding_status = "COMPLETED"
  THEN HTTPException(400, AlreadyCompleted, p)
  ELSE Returned([p EXCEPT !.onboarding_status = "COMPLETED"])

skip_onboarding(p, t) ==
  IF p.onboarding_status = "COMPLETED"
  THEN HTTPException(400, AlreadyCompleted, p)
  ELSE Returned([p EXCEPT !.onboarding_status = "COMPLETED",
                          !.onboarding_completed_at = t])

\* Free-text answers a user may send.
T_blank == <<" ">>
T_A == <<" ","A">>
T_Ana == <<" ","A","n","a"," ">>
T_long == [i \in 1..(NameMaxLen + 1) |-> "x"]
T_goals_comma == <<"l","e","r",","," ","r","i","r">>
T_goals_e == <<"l","e","r"," ","e"," ","r","i","r">>
T_tz_lisbon == <<"E","u","r","o","p","e","/","L","i","s","b","o","n">>
T_tz_unknown == <<"A","s","i","a","/","X","x">>
T_utc == <<"u","t","c">>

UserResponses ==
  {<<>>, T_blank, T_A, T_Ana, T_long, T_goals_comma, T_tz_lisbon}

\* The validators and extractors are pure: their values on the answers of the
\* model are tabulated once.
ValidatorTable ==
  [step \in OnboardingStep |-> [text \in UserResponses |-> STEP_VALIDATORS(step, text)]]

ExtractorTable ==
  [step \in ExtractorSteps |-> [text \in UserResponses |-> STEP_EXTRACTORS(step, text)]]

(* --------------------- SkillOnboardingShort (skill) -------------------- *)
SkillResult(success, data, error) == [success |-> success, data |-> data, error |-> error]

WelcomePrompt == "Olá! Sou o Virtus, seu assistente pessoal de produtividade e bem-estar."
NamePrompt == "Para começar, como você gostaria de ser chamado(a)?"
GoalsPrompt == "Prazer em te conhecer! Me conta: quais são seus principais objetivos atualmente?"
PreferencesPrompt == "Ótimo! Agora preciso saber algumas preferências para te ajudar melhor."
ConclusionPrompt == "Perfeito! Seu perfil está configurado."

\* STEP_DEFINITIONS[step]["prompt"]
StepPrompt(step) ==
  CASE step = "welcome"     -> WelcomePrompt
    [] step = "name"        -> NamePrompt
    [] step = "goals"       -> GoalsPrompt
    [] step = "preferences" -> PreferencesPrompt
    [] step = "conclusion"  -> ConclusionPrompt

\* A handler hands back the SkillResult, the row it leaves behind, and
\* (for inspection only) whether it ran a validator.
Handled(result, p, ran) == [result |-> result, profile |-> p, validator_ran |-> ran]

\* Lines 164-178: the result of a start, from what the service handed back.
handle_start_result(svc) ==
  IF svc.raised
  THEN Handled(SkillResult(FALSE, NoneData, svc.detail), svc.profile, FALSE)
  ELSE Handled(SkillResult(TRUE,
                 DictData([status       |-> svc.profile.onboarding_status,
                           current_step |-> svc.profile.onboarding_current_step,
                           message      |-> StepPrompt("welcome"),
                           next_step    |-> "name"]),
                 NoneStr),
               svc.profile, FALSE)

handle_start(p, t) == handle_start_result(start_onboarding(p, t))

\* next_message: the prompt of the next step, prefixed with the collected
\* name when the next step is goals and a name is there.
NextMessage(next_step, p) ==
  IF next_step = NoneStr THEN [isNone |-> TRUE, greet |-> <<>>, prompt |-> NoneStr]
  ELSE [isNone |-> FALSE,
        greet  |-> IF next_step = "goals" /\ "name" \in DOMAIN get_onboarding_state(p).data
                   THEN get_onboarding_state(p).data["name"] ELSE <<>>,
        prompt |-> StepPrompt(next_step)]

\* Lines 256-267: the result of a processed answer, and the row left behind.
process_response_result(current_step, verdict, extracted_data, next_step, advanced) ==
  Handled(SkillResult(TRUE,
            DictData([is_valid         |-> verdict.is_valid,
                      validation_error |-> verdict.error,
                      current_step     |-> current_step,
                      next_step        |-> next_step,
                      next_message     |-> NextMessage(next_step, advanced),
                      extracted_data   |-> extracted_data]),
            NoneStr),
          advanced, STEP_DEFINITIONS[current_step].validation_required)

\* Lines 232-244: advance the row and name the next step when the answer is valid.
process_response_advance(saved, current_step, verdict, extracted_data, t) ==
  IF verdict.is_valid
  THEN process_response_result(current_step, verdict, extracted_data,
                               get_next_step(current_step), advance_step(saved, t))
  ELSE process_response_result(current_step, verdict, extracted_data, NoneStr, saved)

\* Lines 217-230: extract and save when the answer is valid and the step extracts.
process_response_extract(p, current_step, user_response, verdict, t) ==
  IF /\ verdict.is_valid
     /\ STEP_DEFINITIONS[current_step].extract_data
     /\ current_step \in ExtractorSteps
  THEN process_response_advance(
         save_step_response(p, current_step, ExtractorTable[current_step][user_response],
                            TRUE, user_response, t),
         current_step, verdict, ExtractorTable[current_step][user_response], t)
  ELSE process_response_advance(p, current_step, verdict, EmptyDict, t)

\* Lines 207-215: run the validator of the step when the step declares validation.
process_response_validate(p, current_step, user_response, t) ==
  process_response_extract(p, current_step, user_response,
    IF STEP_DEFINITIONS[current_step].validation_required
    THEN ValidatorTable[current_step][user_response]
    ELSE Verdict(TRUE, NoneStr),
    t)

handle_process_response(p, user_response, t) ==
  IF get_onboarding_state(p).current_step = NoneStr
  THEN Handled(SkillResult(FALSE, NoneData, "Onboarding not started"), p, FALSE)
  ELSE IF get_step_from_string(get_onboarding_state(p).current_step) = NoneStr
  THEN Handled(SkillResult(FALSE, NoneData, "Invalid step"), p, FALSE)
  ELSE process_response_validate(
         p, get_step_from_string(get_onboarding_state(p).current_step), user_response, t)

handle_get_status(p) ==
  LET state == get_onboarding_state(p)
  IN  Handled(SkillResult(TRUE,
                DictData([status           |-> state.status,
                          current_step     |-> state.current_step,
                          progress_percent |-> state.progress_percent,
                          started_at       |-> state.started_at,
                          completed_at     |-> state.completed_at,
                          current_message  |->
                            IF get_step_from_string(state.current_step) # NoneStr
                            THEN StepPrompt(state.current_step) ELSE NoneStr]),
                NoneStr),
              p, FALSE)

\* SkillOnboardingShort.execute for a well-formed user_id of an existing user.
skill_execute(action, p, user_response, t) ==
  CASE action = "start"            -> handle_start(p, t)
    [] action = "process_response" -> handle_process_response(p, user_response, t)
    [] action = "get_status"       -> handle_get_status(p)
    [] OTHER -> Handled(SkillResult(FALSE, NoneData, "Unknown action"), p, FALSE)

\* Values of args["user_id"] and args["action"]: a str, an int, or None for
\* a key that is not there.
StrArg(s) == [type |-> "str", value |-> s]
IntArg(s) == [type |-> "int", value |-> s]
NoneArg == [type |-> "NoneType", value |-> NoneStr]

\* The user of the record, and a well-formed id no profile row has.
KnownUserId == "3f2b8c1e-5d4a-4e6f-9a7b-1c2d3e4f5a6b"
UnknownUserId == "00000000-0000-4000-8000-000000000000"

\* `not x` for an argument.
IsFalsyArg(x) == x.type = "NoneType" \/ (x.type = "str" /\ x.value = "")

\* UUID(user_id_str): the id, a ValueError for a str that is no UUID, an
\* AttributeError for an int (it has no replace()).
UUID(user_id_str) ==
  IF user_id_str.type # "str" THEN [raises |-> "AttributeError", value |-> NoneStr]
  ELSE IF user_id_str.value \in {KnownUserId, UnknownUserId}
  THEN [raises |-> NoneStr, value |-> user_id_str.value]
  ELSE [raises |-> "ValueError", value |-> NoneStr]

\* What execute hands back: a SkillResult and the row left behind, or an
\* exception that leaves it.
SkillReturn(h) ==
  [raised |-> FALSE, result |-> h.result, profile |-> h.profile,
   validator_ran |-> h.validator_ran]
SkillRaise(type, p) ==
  [raised |-> TRUE, result |-> SkillResult(FALSE, NoneData, type), profile |-> p,
   validator_ran |-> FALSE]

\* Lines 113-122 for a user_id that parsed: the handlers.  _get_user_profile
\* raises HTTPException(404) for a user without a row, and each handler turns
\* it into a failed SkillResult with the detail.
execute_route(args, user_id, p, t) ==
  IF args.action.value \notin {"start", "process_response", "get_status"}
  THEN SkillReturn(Handled(SkillResult(FALSE, NoneData, "Unknown action"), p, FALSE))
  ELSE IF user_id # KnownUserId
  THEN SkillReturn(Handled(SkillResult(FALSE, NoneData, "User profile not found"), p, FALSE))
  ELSE SkillReturn(skill_execute(args.action.value, p, args.user_response, t))

\* SkillOnboardingShort.execute without the outer try block.
SkillOnboardingShort_execute_unguarded(args, p, t) ==
  IF IsFalsyArg(args.user_id)
  THEN SkillReturn(Handled(SkillResult(FALSE, NoneData, "Missing required field: user_id"),
                           p, FALSE))
  ELSE IF IsFalsyArg(args.action)
  THEN SkillReturn(Handled(SkillResult(FALSE, NoneData, "Missing required field: action"),
                           p, FALSE))
  ELSE IF UUID(args.user_id).raises \in {"ValueError", "TypeError"}
  THEN SkillReturn(Handled(SkillResult(FALSE, NoneData, "Invalid UUID format"), p, FALSE))
  ELSE IF UUID(args.user_id).raises # NoneStr
  THEN SkillRaise(UUID(args.user_id).raises, p)
  ELSE execute_route(args, UUID(args.user_id).value, p, t)

\* SkillOnboardingShort.execute(args)
SkillOnboardingShort_execute(args, p, t) ==
  IF IsFalsyArg(args.user_id)
  THEN SkillReturn(Handled(SkillResult(FALSE, NoneData, "Missing required field: user_id"),
                           p, FALSE))
  ELSE IF IsFalsyArg(args.action)
  THEN SkillReturn(Handled(SkillResult(FALSE, NoneData, "Missing required field: action"),
                           p, FALSE))
  ELSE IF UUID(args.user_id).raises \in {"ValueError", "TypeError"}
  THEN SkillReturn(Handled(SkillResult(FALSE, NoneData, "Invalid UUID format"), p, FALSE))
  ELSE IF UUID(args.user_id).raises # NoneStr
  THEN SkillReturn(Handled(SkillResult(FALSE, NoneData, "Skill execution failed"), p, FALSE))
  ELSE execute_route(args, UUID(args.user_id).value, p, t)

\* Requests that name no user, no action, no row or no handler.
Args(user_id, action) == [user_id |-> user_id, action |-> action, user_response |-> <<>>]
BadRequests ==
  {Args(NoneArg, StrArg("start")),
   Args(StrArg(""), StrArg("get_status")),
   Args(StrArg(KnownUserId), NoneArg),
   Args(StrArg("not-a-uuid"), StrArg("start")),
   Args(IntArg("12345"), StrArg("process_response")),
   Args(StrArg(KnownUserId), StrArg("delete")),
   Args(StrArg(UnknownUserId), StrArg("start")),
   Args(StrArg(UnknownUserId), StrArg("process_response")),
   Args(StrArg(UnknownUserId), StrArg("get_status"))}

(* ------------------------ /onboarding endpoints ----------------------- *)
HttpOk(body) == [status_code |-> 200, detail |-> NoneStr, body |-> body]
HttpError(code, detail) == [status_code |-> code, detail |-> detail, body |-> EmptyDict]

\* An endpoint hands back the HTTP response and the row it leaves behind.
Served(response, p, ran) == [result |-> response, profile |-> p, validator_ran |-> ran]

\* Lines 71-92: the response to a start that went through the skill.
api_start_response(h, t) ==
  IF ~h.result.success \/ h.result.data.isNone
  THEN Served(HttpError(400, IF h.result.error # NoneStr THEN h.result.error
                             ELSE "Failed to start onboarding"),
              h.profile, FALSE)
  ELSE Served(HttpOk([status       |-> get_onboarding_state(h.profile).status,
                      current_step |-> IF get_onboarding_state(h.profile).current_step = NoneStr
                                       THEN "welcome"
                                       ELSE get_onboarding_state(h.profile).current_step,
                      message      |-> h.result.data.d["message"],
                      started_at   |-> IF get_onboarding_state(h.profile).started_at # NoneTime
                                       THEN get_onboarding_state(h.profile).started_at
                                       ELSE t]),
              h.profile, FALSE)

\* Lines 49-65: the response to a start on a record that is IN_PROGRESS.
api_start_current(state, p, t) ==
  Served(HttpOk([status       |-> state.status,
                 current_step |-> IF state.current_step = NoneStr THEN "welcome"
                                  ELSE state.current_step,
                 message      |-> IF get_step_from_string(state.current_step) # NoneStr
                                  THEN StepPrompt(state.current_step) ELSE "",
                 started_at   |-> IF state.started_at # NoneTime
                                  THEN state.started_at ELSE t]),
         p, FALSE)

\* POST /onboarding/start
api_start_onboarding(p, t) ==
  IF get_onboarding_state(p).status = "COMPLETED"
  THEN Served(HttpError(400, AlreadyCompleted), p, FALSE)
  ELSE IF get_onboarding_state(p).status = "IN_PROGRESS"
  THEN api_start_current(get_onboarding_state(p), p, t)
  ELSE api_start_response(skill_execute("start", p, <<>>, t), t)

\* Lines 130-164: the response to a message that went through the skill.
api_message_response(h) ==
  IF ~h.result.success \/ h.result.data.isNone
  THEN Served(HttpError(500, IF h.result.error # NoneStr THEN h.result.error
                             ELSE "Failed to process message"),
              h.profile, h.validator_ran)
  ELSE Served(HttpOk([current_step      |-> h.result.data.d["current_step"],
                      next_step         |-> h.result.data.d["next_step"],
                      is_step_complete  |-> h.result.data.d["is_valid"],
                      validation_error  |-> IF h.result.data.d["is_valid"] THEN NoneStr
                                            ELSE h.result.data.d["validation_error"]]),
              h.profile, h.validator_ran)

\* POST /onboarding/message
api_process_message(p, message, t) ==
  IF get_onboarding_state(p).status = "NOT_STARTED"
  THEN Served(HttpError(400, "Onboarding not started. Call /start first."), p, FALSE)
  ELSE IF get_onboarding_state(p).status = "COMPLETED"
  THEN Served(HttpError(400, "Onboarding already completed"), p, FALSE)
  ELSE api_message_response(skill_execute("process_response", p, message, t))

\* GET /onboarding/status
api_get_status(p) ==
  LET state == get_onboarding_state(p)
  IN  Served(HttpOk([status           |-> state.status,
                     current_step     |-> state.current_step,
                     progress_percent |-> state.progress_percent,
                     started_at       |-> state.started_at,
                     completed_at     |-> state.completed_at]),
             p, FALSE)

\* Lines 195-203: the response to a skip.
api_skip_response(svc) ==
  IF svc.raised
  THEN Served(HttpError(svc.status_code, svc.detail), svc.profile, FALSE)
  ELSE Served(HttpOk([status       |-> svc.profile.onboarding_status,
                      completed_at |-> svc.profile.onboarding_completed_at]),
              svc.profile, FALSE)

\* PATCH /onboarding/skip
api_skip_onboarding(p, t) == api_skip_response(skip_onboarding(p, t))

(* ------------------- messages of the skill layer ---------------------- *)
\* Error texts and replies are built by f-strings; a text is the sequence of
\* the pieces it is concatenated from.  None is the empty sequence, and the
\* empty string is a sequence whose pieces are all empty.
NoText == <<>>
EmptyText == <<"">>
IsFalsyText(text) == \A i \in 1..Len(text) : text[i] = ""

(* --------------------------- SkillRegistry ---------------------------- *)
\* Names the orchestrator routes to.
SkillNames == {"get_current_date", "get_user_preferences", "get_calendar_events"}

\* Distinct instances of a skill class.
Instances == 1..MaxInstances

\* A skill object: the class attribute name, and which instance it is.
Skill(name, instance) == [name |-> name, instance |-> instance]
NoSkill == Skill(NoneStr, 0)

\* _skills: a dict keyed by name, kept here as the values in insertion order.
HasSkill(skills, skill_name) == \E i \in 1..Len(skills) : skills[i].name = skill_name

\* register that replaces an entry of the same name.
register_overwrites(skills, skill) ==
  [raised |-> FALSE,
   skills |-> IF HasSkill(skills, skill.name)
              THEN [i \in 1..Len(skills) |->
                      IF skills[i].name = skill.name THEN skill ELSE skills[i]]
              ELSE Append(skills, skill)]

register(skills, skill) ==
  IF HasSkill(skills, skill.name)
  THEN [raised |-> TRUE, skills |-> skills]
  ELSE [raised |-> FALSE, skills |-> Append(skills, skill)]

unregister(skills, skill_name) ==
  SelectSeq(skills, LAMBDA s : s.name # skill_name)

get_skill(skills, skill_name) ==
  IF HasSkill(skills, skill_name)
  THEN skills[CHOOSE i \in 1..Len(skills) : skills[i].name = skill_name]
  ELSE NoSkill

\* The class attributes of the example skills.
description(skill) ==
  CASE skill.name = "get_current_date" ->
         "Get the current date and time, optionally in a specific timezone"
    [] skill.name = "get_user_preferences" ->
         "Get the preferences for a specific user including timezone, language, communication style, and check-in settings"
    [] skill.name = "get_calendar_events" ->
         "Get upcoming calendar events for a user within a specified date range"

\* The JSONSchema of a skill: its type, the names of its properties and the
\* required ones.
parameters(skill) ==
  CASE skill.name = "get_current_date" ->
         [type |-> "object", properties |-> {"timezone", "format"}, required |-> <<>>]
    [] skill.name = "get_user_preferences" ->
         [type |-> "object", properties |-> {"user_id"}, required |-> <<"user_id">>]
    [] skill.name = "get_calendar_events" ->
         [type |-> "object", properties |-> {"user_id", "days_ahead", "limit"},
          required |-> <<"user_id">>]

to_tool_definition(skill) ==
  [type     |-> "function",
   function |-> [name        |-> skill.name,
                 description |-> description(skill),
                 parameters  |-> parameters(skill)]]

\* list_skills that enumerates the most recently registered skill first.
list_skills_newest_first(skills) ==
  [i \in 1..Len(skills) |->
     [name        |-> skills[Len(skills) + 1 - i].name,
      description |-> description(skills[Len(skills) + 1 - i]),
      parameters  |-> parameters(skills[Len(skills) + 1 - i])]]

\* One entry per value of _skills, in the order of the dict.
list_skills(skills) ==
  [i \in 1..Len(skills) |->
     [name        |-> skills[i].name,
      description |-> description(skills[i]),
      parameters  |-> parameters(skills[i])]]

get_tool_definitions(skills) ==
  [i \in 1..Len(skills) |-> to_tool_definition(skills[i])]

(* ---------------------------- SkillExecutor --------------------------- *)
\* Payloads a skill hands back: one json.dumps can serialise, one it cannot.
JsonPayload == DictData([formatted |-> "2026-05-01T12:00:00+00:00"])
ObjectPayload == DictData([object |-> "datetime.datetime(2026, 5, 1, 12, 0)"])

ExceptionTypes == {"ValueError", "RuntimeError"}
ExceptionMessages == {EmptyText, <<"Missing required_field">>}

\* What a skill's own execute(args) does with the args it is given.
Returning(result) ==
  [kind |-> "returns", result |-> result, type |-> NoneStr, message |-> NoText]
Raising(type, message) ==
  [kind |-> "raises", result |-> SkillResult(FALSE, NoneData, NoText),
   type |-> type, message |-> message]
ReturningNone ==
  [kind |-> "returns_none", result |-> SkillResult(FALSE, NoneData, NoText),
   type |-> NoneStr, message |-> NoText]

SkillBehaviours ==
  {Returning(SkillResult(TRUE, JsonPayload, NoText)),
   Returning(SkillResult(TRUE, ObjectPayload, NoText)),
   Returning(SkillResult(TRUE, NoneData, NoText)),
   Returning(SkillResult(FALSE, NoneData, <<"Invalid timezone">>)),
   Returning(SkillResult(FALSE, NoneData, NoText)),
   ReturningNone}
  \cup {Raising(type, message) : type \in ExceptionTypes, message \in ExceptionMessages}

\* How a call of the executor ends: with a SkillResult or with an exception;
\* invoked lists the skills whose execute was called.
Returns(result, invoked) ==
  [raised |-> FALSE, type |-> NoneStr, message |-> NoText,
   result |-> result, invoked |-> invoked]
Raises(type, message, invoked) ==
  [raised |-> TRUE, type |-> type, message |-> message,
   result |-> SkillResult(FALSE, NoneData, NoText), invoked |-> invoked]

NoneTypeHasNoSuccess == <<"'NoneType' object has no attribute 'success'">>

\* Lines 63-74: the call of the skill inside the try block.
execute_skill_call(skill, behaviour) ==
  CASE behaviour.kind = "returns" -> Returns(behaviour.result, <<skill>>)
    [] behaviour.kind = "raises" ->
         Returns(SkillResult(FALSE, NoneData,
                             <<behaviour.type, ": ">> \o behaviour.message),
                 <<skill>>)
    [] behaviour.kind = "returns_none" ->
         Returns(SkillResult(FALSE, NoneData,
                             <<"AttributeError", ": ">> \o NoneTypeHasNoSuccess),
                 <<skill>>)

\* execute that lets the error of the skill through.
execute_unguarded(skills, skill_name, behaviour) ==
  IF get_skill(skills, skill_name) = NoSkill
  THEN Raises("SkillExecutionError",
              <<"Skill '", skill_name, "' not found in registry">>, <<>>)
  ELSE IF behaviour.kind = "raises"
  THEN Raises(behaviour.type, behaviour.message, <<get_skill(skills, skill_name)>>)
  ELSE execute_skill_call(get_skill(skills, skill_name), behaviour)

execute(skills, skill_name, behaviour) ==
  IF get_skill(skills, skill_name) = NoSkill
  THEN Raises("SkillExecutionError",
              <<"Skill '", skill_name, "' not found in registry">>, <<>>)
  ELSE execute_skill_call(get_skill(skills, skill_name), behaviour)

\* Lines 92-97: the handler of SkillExecutionError.
execute_fallback(outcome, skill_name, fallback_message) ==
  IF outcome.raised /\ outcome.type = "SkillExecutionError"
  THEN Returns(SkillResult(FALSE, NoneData,
                           IF fallback_message = NoText
                           THEN <<"Skill '", skill_name, "' is not available">>
                           ELSE fallback_message),
               outcome.invoked)
  ELSE outcome

\* execute_with_fallback without the handler of SkillExecutionError.
execute_with_fallback_unhandled(skills, skill_name, fallback_message, behaviour) ==
  execute(skills, skill_name, behaviour)

execute_with_fallback(skills, skill_name, fallback_message, behaviour) ==
  execute_fallback(execute(skills, skill_name, behaviour), skill_name, fallback_message)

FallbackMessages == {NoText, EmptyText, <<"Try again later">>}

(* --------------------------- OrchestratorAgent ------------------------ *)
UserId == "7f9c2d4e"

\* The context collaborator: what build_permanent_context does, or that the
\* collaborator has no such method.
ContextServices ==
  {"with_timezone", "without_user", "raises", "no_method", "returns_none", "user_is_none"}

build_permanent_context(context_service, user_id) ==
  CASE context_service = "with_timezone" ->
         DictData([user |-> DictData([id |-> user_id, timezone |-> "America/Sao_Paulo"])])
    [] context_service = "without_user" -> DictData(EmptyDict)
    [] context_service = "returns_none" -> NoneData
    [] context_service = "user_is_none" -> DictData([user |-> NoneData])

MinimalContext(user_id) == DictData([user |-> DictData([id |-> user_id])])

\* _build_context that falls back to an empty context.
build_context_empty_fallback(context_service, user_id) ==
  IF context_service = "no_method"
  THEN [context |-> DictData(EmptyDict), trace |-> <<>>]
  ELSE IF context_service = "raises"
  THEN [context |-> DictData(EmptyDict), trace |-> <<"context">>]
  ELSE [context |-> build_permanent_context(context_service, user_id),
        trace |-> <<"context">>]

\* The context, and the collaborators used to obtain it.
build_context(context_service, user_id) ==
  IF context_service = "no_method"
  THEN [context |-> MinimalContext(user_id), trace |-> <<>>]
  ELSE IF context_service = "raises"
  THEN [context |-> MinimalContext(user_id), trace |-> <<"context">>]
  ELSE [context |-> build_permanent_context(context_service, user_id),
        trace |-> <<"context">>]

ActionType == {"direct_response", "skill_call"}
Action(type, skill_name, skill_args, reasoning) ==
  [type |-> type, skill_name |-> skill_name, skill_args |-> skill_args,
   reasoning |-> reasoning]

Decided(action) == [raised |-> FALSE, action |-> action]
DecideFailed ==
  [raised |-> TRUE, action |-> Action("direct_response", NoneStr, EmptyDict, NoneStr)]

\* context.get("user", {}).get(key, default) fails on a context, or a user
\* entry, that is not a dict.
UserEntryReadable(context) ==
  /\ ~context.isNone
  /\ "user" \in DOMAIN context.d => ~context.d["user"].isNone

UserEntry(context, key, default) ==
  IF "user" \in DOMAIN context.d /\ key \in DOMAIN context.d["user"].d
  THEN context.d["user"].d[key]
  ELSE default

K_time == <<"t","i","m","e">>
K_date == <<"d","a","t","e">>
K_hora == <<"h","o","r","a">>
K_data == <<"d","a","t","a">>
K_quando == <<"q","u","a","n","d","o">>
K_preferences == <<"p","r","e","f","e","r","e","n","c","e","s">>
K_preferencias == <<"p","r","e","f","e","r","ê","n","c","i","a","s">>
K_settings == <<"s","e","t","t","i","n","g","s">>
K_configuracoes == <<"c","o","n","f","i","g","u","r","a","ç","õ","e","s">>
K_calendar == <<"c","a","l","e","n","d","a","r">>
K_calendario == <<"c","a","l","e","n","d","á","r","i","o">>
K_events == <<"e","v","e","n","t","s">>
K_eventos == <<"e","v","e","n","t","o","s">>
K_agenda == <<"a","g","e","n","d","a">>

time_keywords == <<K_time, K_date, K_hora, K_data, K_quando>>
preferences_keywords == <<K_preferences, K_preferencias, K_settings, K_configuracoes>>
calendar_keywords == <<K_calendar, K_calendario, K_events, K_eventos, K_agenda>>

\* any(keyword in message_lower for keyword in keywords)
AnyKeyword(keywords, message_lower) ==
  \E i \in 1..Len(keywords) : contains(keywords[i], message_lower)

M_time == <<"W","h","a","t"," ","t","i","m","e"," ","i","s"," ","i","t","?">>
M_hello == <<"H","e","l","l","o">>
M_settings == <<"M","y"," ","S","E","T","T","I","N","G","S">>
M_agenda == <<"a","g","e","n","d","a">>
M_calendar_date == <<"c","a","l","e","n","d","a","r"," ","d","a","t","e">>

M_settings_events == <<"s","e","t","t","i","n","g","s"," ","e","v","e","n","t","s">>

Messages == {M_time, M_hello, M_settings, M_agenda, M_calendar_date, M_settings_events}

\* The routing with the calendar keywords tried first.
KeywordCategory_calendar_first(message) ==
  IF AnyKeyword(calendar_keywords, lower(message)) THEN "calendar"
  ELSE IF AnyKeyword(time_keywords, lower(message)) THEN "time"
  ELSE IF AnyKeyword(preferences_keywords, lower(message)) THEN "preferences"
  ELSE "none"

\* Lines 158-186: the category of a message, first match first.
KeywordCategory(message) ==
  IF AnyKeyword(time_keywords, lower(message)) THEN "time"
  ELSE IF AnyKeyword(preferences_keywords, lower(message)) THEN "preferences"
  ELSE IF AnyKeyword(calendar_keywords, lower(message)) THEN "calendar"
  ELSE "none"

\* The category depends on the message alone: its values on the messages used.
CategoryTable == [message \in Messages |-> KeywordCategory(message)]

decide_action(message, context) ==
  IF CategoryTable[message] = "none"
  THEN Decided(Action("direct_response", NoneStr, EmptyDict,
                      "No matching skill, direct response"))
  ELSE IF ~UserEntryReadable(context)
  THEN DecideFailed
  ELSE CASE CategoryTable[message] = "time" ->
              Decided(Action("skill_call", "get_current_date",
                             [timezone |-> UserEntry(context, "timezone", "UTC")],
                             "User asked about time/date"))
         [] CategoryTable[message] = "preferences" ->
              Decided(Action("skill_call", "get_user_preferences",
                             [user_id |-> UserEntry(context, "id", "")],
                             "User asked about preferences"))
         [] CategoryTable[message] = "calendar" ->
              Decided(Action("skill_call", "get_calendar_events",
                             [user_id |-> UserEntry(context, "id", ""), days_ahead |-> 7],
                             "User asked about calendar"))

\* Lines 206-216: the call of the executor, and the handler of its errors.
execute_skill_outcome(outcome) ==
  IF outcome.raised
  THEN [result |-> SkillResult(FALSE, NoneData, outcome.message),
        trace |-> <<"executor">>, invoked |-> outcome.invoked]
  ELSE [result |-> outcome.result, trace |-> <<"executor">>, invoked |-> outcome.invoked]

\* _execute_skill that hands every action to the executor.
execute_skill_always_delegates(skills, action, behaviour) ==
  execute_skill_outcome(execute(skills, action.skill_name, behaviour))

execute_skill(skills, action, behaviour) ==
  IF action.skill_name = NoneStr
  THEN [result |-> SkillResult(FALSE, NoneData, <<"No skill name specified">>),
        trace |-> <<>>, invoked |-> <<>>]
  ELSE execute_skill_outcome(execute(skills, action.skill_name, behaviour))

json_serializable(data) == "object" \notin DOMAIN data.d

format_skill_result(skill_result) ==
  IF skill_result.data.isNone
  THEN <<"No data returned">>
  ELSE IF json_serializable(skill_result.data)
  THEN <<"{\n  \"formatted\": \"", skill_result.data.d["formatted"], "\"\n}">>
  ELSE <<"{'object': ", skill_result.data.d["object"], "}">>

\* What generate_response hands back: a str, or a value that is not one
\* (sized tells whether len() accepts it).
Str(text) == [is_str |-> TRUE, sized |-> TRUE, text |-> text]
ListValue == [is_str |-> FALSE, sized |-> TRUE, text |-> NoText]
NoneValue == [is_str |-> FALSE, sized |-> FALSE, text |-> NoText]

LLMServices == {"replies", "raises", "returns_none", "returns_list"}

generate_response(llm_service) ==
  CASE llm_service = "replies" -> Str(<<"It is noon.">>)
    [] llm_service = "returns_none" -> NoneValue
    [] llm_service = "returns_list" -> ListValue

\* _generate_response_with_skill_result that answers None when the LLM
\* collaborator raises.
generate_response_with_skill_result_unguarded(llm_service, skill_output) ==
  IF llm_service = "raises"
  THEN NoneValue
  ELSE generate_response(llm_service)

generate_response_with_skill_result(llm_service, skill_output) ==
  IF llm_service = "raises"
  THEN Str(<<"Here's what I found:\n">> \o skill_output)
  ELSE generate_response(llm_service)

generate_direct_response(llm_service) ==
  IF llm_service = "raises"
  THEN Str(<<"I apologize, but I'm having trouble generating a response right now.">>)
  ELSE generate_response(llm_service)

generate_error_response(error) ==
  Str(<<"I apologize, but I encountered an error while trying to help you: ">> \o error)

get_fallback_error_message ==
  <<"I apologize, but I'm experiencing technical difficulties. Please try again later.">>

\* What process_message hands to its caller.
Reply(response) == [raised |-> FALSE, is_str |-> response.is_str, text |-> response.text]
NoReply == [raised |-> FALSE, is_str |-> FALSE, text |-> NoText]

\* Lines 108-113: len(response), the return, and the handler of the try block.
process_message_return(response) ==
  IF response.sized
  THEN Reply(response)
  ELSE Reply(Str(get_fallback_error_message))

\* The reply to a failed skill call left to the handler of the try block.
skill_error_reply_generic(skill_result) ==
  Reply(Str(get_fallback_error_message))

\* Lines 99-103: the reply to a skill call that failed.
skill_error_reply(skill_result) ==
  process_message_return(
    generate_error_response(IF IsFalsyText(skill_result.error)
                            THEN <<"Unknown error">>
                            ELSE skill_result.error))

(* ---------------------------- the state ------------------------------- *)
VARIABLES
  profile,   \* the onboarding columns of the user's UserProfile row
  now,       \* the clock, in days
  last,      \* the last onboarding call: its name, entry point, the row before it, its result
  skills,    \* SkillRegistry._skills
  call,      \* the last call of the registry, the executor or an extractor
  agent,     \* the process_message call of the orchestrator: where it is, what it holds
  proc       \* the process_response calls in flight: where each one is, what it read

vars == <<profile, now, last, skills, call, agent, proc>>

\* The two requests of a double submit.
Requests == {1, 2}

\* The answers of a double submit.
DoubleSubmitTexts == {T_A, T_Ana, T_goals_comma}

\* The orchestrator before any message.
IdleAgent ==
  [pc |-> "idle", message |-> <<>>, context_service |-> NoneStr,
   context |-> NoneData, trace |-> <<>>,
   action |-> Action("direct_response", NoneStr, EmptyDict, NoneStr),
   behaviour |-> ReturningNone, skill_result |-> SkillResult(FALSE, NoneData, NoText),
   invoked |-> <<>>, llm_service |-> NoneStr, reply |-> NoReply]

IdleRequest ==
  [pc |-> "idle", user_response |-> <<>>, current_step |-> NoneStr, is_valid |-> FALSE]

\* Values of max_days passed to check_session_timeout.
MaxDaysChoices == {0, 1}

Called(op, via, pre, input, h) ==
  [op |-> op, via |-> via, pre |-> pre, input |-> input,
   result |-> h.result, validator_ran |-> h.validator_ran]

Init ==
  /\ profile = NewProfile
  /\ now = 0
  /\ last = [op |-> "none", via |-> "none", pre |-> NewProfile, input |-> <<>>,
             result |-> EmptyDict, validator_ran |-> FALSE]
  /\ skills = <<>>
  /\ call = [op |-> "none"]
  /\ agent = IdleAgent
  /\ proc = [base |-> NewProfile, req |-> [r \in Requests |-> IdleRequest]]

Tick ==
  /\ now < MaxTime
  /\ now' = now + 1
  /\ UNCHANGED <<profile, last, skills, call, agent, proc>>

SkillStart ==
  \E h \in {skill_execute("start", profile, <<>>, now)} :
    /\ profile' = h.profile
    /\ last' = Called("start", "skill", profile, <<>>, h)
    /\ UNCHANGED <<now, skills, call, agent, proc>>

SkillProcessResponse ==
  \E text \in UserResponses :
    \E h \in {skill_execute("process_response", profile, text, now)} :
      /\ profile' = h.profile
      /\ last' = Called("process_response", "skill", profile, text, h)
      /\ UNCHANGED <<now, skills, call, agent, proc>>

SkillGetStatus ==
  \E h \in {skill_execute("get_status", profile, <<>>, now)} :
    /\ profile' = h.profile
    /\ last' = Called("get_status", "skill", profile, <<>>, h)
    /\ UNCHANGED <<now, skills, call, agent, proc>>

ApiStart ==
  \E h \in {api_start_onboarding(profile, now)} :
    /\ profile' = h.profile
    /\ last' = Called("start", "api", profile, <<>>, h)
    /\ UNCHANGED <<now, skills, call, agent, proc>>

ApiMessage ==
  \E text \in UserResponses :
    \E h \in {api_process_message(profile, text, now)} :
      /\ profile' = h.profile
      /\ last' = Called("process_response", "api", profile, text, h)
      /\ UNCHANGED <<now, skills, call, agent, proc>>

ApiStatus ==
  \E h \in {api_get_status(profile)} :
    /\ profile' = h.profile
    /\ last' = Called("get_status", "api", profile, <<>>, h)
    /\ UNCHANGED <<now, skills, call, agent, proc>>

ApiSkip ==
  \E h \in {api_skip_onboarding(profile, now)} :
    /\ profile' = h.profile
    /\ last' = Called("skip", "api", profile, <<>>, h)
    /\ UNCHANGED <<now, skills, call, agent, proc>>

SkillBadRequest ==
  \E args \in BadRequests :
    \E h \in {SkillOnboardingShort_execute(args, profile, now)} :
      /\ profile' = h.profile
      /\ last' = [op |-> "execute", via |-> "skill", pre |-> profile, input |-> args,
                  result |-> h.result, validator_ran |-> h.validator_ran,
                  raised |-> h.raised]
      /\ UNCHANGED <<now, skills, call, agent, proc>>

ResetOnboarding ==
  /\ profile' = reset_onboarding(profile)
  /\ last' = [op |-> "reset", via |-> "service", pre |-> profile, input |-> <<>>,
              result |-> EmptyDict, validator_ran |-> FALSE]
  /\ UNCHANGED <<now, skills, call, agent, proc>>

CheckSessionTimeout ==
  \E max_days \in MaxDaysChoices :
    \E c \in {check_session_timeout(profile, max_days, now)} :
      /\ profile' = c.profile
      /\ last' = [op |-> "check_session_timeout", via |-> "service", pre |-> profile,
                  input |-> <<>>,
                  result |-> [was_reset |-> c.was_reset, max_days |-> max_days, at |-> now],
                  validator_ran |-> FALSE]
      /\ UNCHANGED <<now, skills, call, agent, proc>>

Next ==
  \/ Tick
  \/ SkillStart
  \/ SkillProcessResponse
  \/ SkillGetStatus
  \/ ApiStart
  \/ ApiMessage
  \/ ApiStatus
  \/ ApiSkip
  \/ SkillBadRequest
  \/ ResetOnboarding
  \/ CheckSessionTimeout

Spec == Init /\ [][Next]_vars

(* ------------------ the skill layer as a state machine ---------------- *)
Register ==
  \E name \in SkillNames, instance \in Instances :
    \E r \in {register(skills, Skill(name, instance))} :
      /\ skills' = r.skills
      /\ call' = [op |-> "register", skill |-> Skill(name, instance),
                  pre |-> skills, raised |-> r.raised]
      /\ UNCHANGED <<profile, now, last, agent, proc>>

Unregister ==
  \E name \in SkillNames :
    /\ skills' = unregister(skills, name)
    /\ call' = [op |-> "unregister", skill_name |-> name, pre |-> skills, raised |-> FALSE]
    /\ UNCHANGED <<profile, now, last, agent, proc>>

Execute ==
  \E name \in SkillNames, behaviour \in SkillBehaviours :
    /\ call' = [op |-> "execute", skill_name |-> name, behaviour |-> behaviour,
                pre |-> skills, outcome |-> execute(skills, name, behaviour)]
    /\ UNCHANGED <<profile, now, last, skills, agent, proc>>

ExecuteWithFallback ==
  \E name \in SkillNames, behaviour \in SkillBehaviours,
     fallback_message \in FallbackMessages :
    /\ call' = [op |-> "execute_with_fallback", skill_name |-> name,
                behaviour |-> behaviour, fallback_message |-> fallback_message,
                pre |-> skills,
                outcome |-> execute_with_fallback(skills, name, fallback_message,
                                                  behaviour)]
    /\ UNCHANGED <<profile, now, last, skills, agent, proc>>

ListSkills ==
  /\ call' = [op |-> "list_skills", pre |-> skills, listed |-> list_skills(skills)]
  /\ UNCHANGED <<profile, now, last, skills, agent, proc>>

GetToolDefinitions ==
  /\ call' = [op |-> "get_tool_definitions", pre |-> skills,
              listed |-> get_tool_definitions(skills)]
  /\ UNCHANGED <<profile, now, last, skills, agent, proc>>

NextSkills ==
  \/ Register
  \/ Unregister
  \/ Execute
  \/ ExecuteWithFallback
  \/ ListSkills
  \/ GetToolDefinitions

SpecSkills == Init /\ [][NextSkills]_vars

(* ------------------- the orchestrator as a process -------------------- *)
\* process_message is a coroutine: it awaits the context collaborator, the
\* executor and the LLM collaborator in turn, and each collaborator answers
\* when it is awaited.  The registry is shared with the rest of the
\* application, which registers and unregisters skills meanwhile.
InstallSkill ==
  \E name \in SkillNames, instance \in Instances :
    /\ skills' = register(skills, Skill(name, instance)).skills
    /\ UNCHANGED <<profile, now, last, call, agent, proc>>

RemoveSkill ==
  \E name \in SkillNames :
    /\ skills' = unregister(skills, name)
    /\ UNCHANGED <<profile, now, last, call, agent, proc>>

\* Line 70: a message arrives.
ReceiveMessage ==
  /\ agent.pc \in {"idle", "done", "returned"}
  /\ \E message \in Messages :
       agent' = [IdleAgent EXCEPT !.pc = "build_context", !.message = message]
  /\ UNCHANGED <<profile, now, last, skills, call, proc>>

\* Lines 74-79 (and 111-113 when the routing fails): the context, then the action.
Routed(a, context_service, built, decided) ==
  [a EXCEPT !.context_service = context_service,
            !.context = built.context,
            !.trace = built.trace,
            !.action = decided.action,
            !.pc = IF decided.raised THEN "done"
                   ELSE IF decided.action.type = "skill_call" THEN "execute_skill"
                   ELSE "respond",
            !.reply = IF decided.raised THEN Reply(Str(get_fallback_error_message))
                      ELSE NoReply]

BuildContext ==
  /\ agent.pc = "build_context"
  /\ \E context_service \in ContextServices :
       \E built \in {build_context(context_service, UserId)} :
         agent' = Routed(agent, context_service, built,
                         decide_action(agent.message, built.context))
  /\ UNCHANGED <<profile, now, last, skills, call, proc>>

\* Lines 85-103: the skill call; a failed call is answered at once.
Executed(a, behaviour, executed) ==
  [a EXCEPT !.behaviour = behaviour,
            !.skill_result = executed.result,
            !.invoked = executed.invoked,
            !.trace = @ \o executed.trace,
            !.pc = IF executed.result.success THEN "respond" ELSE "done",
            !.reply = IF executed.result.success THEN NoReply
                      ELSE skill_error_reply(executed.result)]

ExecuteSkill ==
  /\ agent.pc = "execute_skill"
  /\ \E behaviour \in SkillBehaviours :
       agent' = Executed(agent, behaviour, execute_skill(skills, agent.action, behaviour))
  /\ UNCHANGED <<profile, now, last, skills, call, proc>>

\* Lines 89-95 and 106-109: the LLM collaborator phrases the reply.
Respond ==
  /\ agent.pc = "respond"
  /\ \E llm_service \in LLMServices :
       agent' = [agent EXCEPT
                   !.llm_service = llm_service,
                   !.trace = @ \o <<"llm">>,
                   !.pc = "done",
                   !.reply =
                     process_message_return(
                       IF agent.action.type = "skill_call"
                       THEN generate_response_with_skill_result(
                              llm_service, format_skill_result(agent.skill_result))
                       ELSE generate_direct_response(llm_service))]
  /\ UNCHANGED <<profile, now, last, skills, call, proc>>

\* _execute_skill called on its own with an action the caller built, a
\* SKILL_CALL without a skill name included.
GivenActions ==
  {Action("skill_call", name, EmptyDict, NoneStr) : name \in SkillNames \cup {NoneStr}}

Returned_execute_skill(action, behaviour, executed) ==
  [IdleAgent EXCEPT !.pc = "returned",
                    !.action = action,
                    !.behaviour = behaviour,
                    !.skill_result = executed.result,
                    !.invoked = executed.invoked,
                    !.trace = executed.trace]

CallExecuteSkill ==
  /\ agent.pc \in {"idle", "returned"}
  /\ \E action \in GivenActions, behaviour \in SkillBehaviours :
       agent' = Returned_execute_skill(action, behaviour,
                                       execute_skill(skills, action, behaviour))
  /\ UNCHANGED <<profile, now, last, skills, call, proc>>

NextAgent ==
  \/ InstallSkill
  \/ RemoveSkill
  \/ ReceiveMessage
  \/ BuildContext
  \/ ExecuteSkill
  \/ Respond
  \/ CallExecuteSkill

SpecAgent == Init /\ [][NextAgent]_vars

(* ------------- two process_response calls for the same user ----------- *)
\* Each call holds its own database session; every service function reads
\* the row, changes it and commits, and the calls interleave between the
\* awaits of _handle_process_response.
AllIdle == \A r \in Requests : proc.req[r].pc = "idle"

\* The calls made one after the other before the double submit.
SerialStart ==
  /\ AllIdle
  /\ profile' = handle_start(profile, now).profile
  /\ UNCHANGED <<now, last, skills, call, agent, proc>>

SerialAnswer ==
  /\ AllIdle
  /\ \E text \in DoubleSubmitTexts :
       profile' = handle_process_response(profile, text, now).profile
  /\ UNCHANGED <<now, last, skills, call, agent, proc>>

\* Both requests arrive.
DoubleSubmit ==
  /\ AllIdle
  /\ \E texts \in [Requests -> DoubleSubmitTexts] :
       proc' = [base |-> profile,
                req  |-> [r \in Requests |->
                            [pc |-> "read", user_response |-> texts[r],
                             current_step |-> NoneStr, is_valid |-> FALSE]]]
  /\ UNCHANGED <<profile, now, last, skills, call, agent>>

\* Lines 192-214: get_onboarding_state, then the validator of the step read.
StepValidated(req, current_step) ==
  [req EXCEPT
     !.current_step = current_step,
     !.is_valid = IF STEP_DEFINITIONS[current_step].validation_required
                  THEN ValidatorTable[current_step][req.user_response].is_valid
                  ELSE TRUE,
     !.pc = IF STEP_DEFINITIONS[current_step].validation_required
               /\ ~ValidatorTable[current_step][req.user_response].is_valid
            THEN "done" ELSE "save"]

ReadState(r) ==
  /\ proc.req[r].pc = "read"
  /\ \E current_step \in {get_step_from_string(get_onboarding_state(profile).current_step)} :
       proc' = [proc EXCEPT !.req[r] =
                  IF current_step = NoneStr
                  THEN [proc.req[r] EXCEPT !.pc = "done"]
                  ELSE StepValidated(proc.req[r], current_step)]
  /\ UNCHANGED <<profile, now, last, skills, call, agent>>

\* Lines 217-230: save_step_response with the data extracted for the step read.
SaveStepResponse(r) ==
  /\ proc.req[r].pc = "save"
  /\ profile' =
       IF /\ STEP_DEFINITIONS[proc.req[r].current_step].extract_data
          /\ proc.req[r].current_step \in ExtractorSteps
       THEN save_step_response(
              profile, proc.req[r].current_step,
              ExtractorTable[proc.req[r].current_step][proc.req[r].user_response],
              TRUE, proc.req[r].user_response, now)
       ELSE profile
  /\ proc' = [proc EXCEPT !.req[r].pc = "advance"]
  /\ UNCHANGED <<now, last, skills, call, agent>>

\* Lines 236-238: advance_step on the row as it is now.
AdvanceStep(r) ==
  /\ proc.req[r].pc = "advance"
  /\ profile' = advance_step(profile, now)
  /\ proc' = [proc EXCEPT !.req[r].pc = "done"]
  /\ UNCHANGED <<now, last, skills, call, agent>>

NextConc ==
  \/ SerialStart
  \/ SerialAnswer
  \/ DoubleSubmit
  \/ \E r \in Requests : ReadState(r)
  \/ \E r \in Requests : SaveStepResponse(r)
  \/ \E r \in Requests : AdvanceStep(r)

SpecConc == Init /\ [][NextConc]_vars

(* ------------- validators and extractors on their own ----------------- *)
\* The longest goals text drawn from GoalsAlphabet.
MaxGoalsLen == 5

GoalsAlphabet == {"a", "e", ",", " ", "\n"}

T_goals_example ==
  <<"C","r","e","s","c","e","r"," ","n","a"," ","c","a","r","r","e","i","r","a",",",
    " ","m","e","l","h","o","r","a","r"," ","s","a","ú","d","e">>

\* Answers to the goals prompt: every text over GoalsAlphabet up to
\* MaxGoalsLen characters, and three written out.
GoalsTexts ==
  UNION {[1..n -> GoalsAlphabet] : n \in 0..MaxGoalsLen}
    \cup {T_goals_example, T_goals_comma, T_goals_e}

T_name_max == [i \in 1..NameMaxLen |-> "x"]

\* Answers to the name prompt, around both length limits.
NameTexts ==
  {<<>>, T_blank, T_A, T_Ana, <<"A","n">>, T_name_max, <<" ">> \o T_name_max \o <<"\n">>,
   T_long}

\* Answers to the preferences prompt.
PreferencesTexts ==
  {<<>>, T_blank, T_tz_lisbon, T_tz_unknown, T_utc, K_sao_paulo, K_english,
   K_utc \o <<" ">> \o K_english}

AnswersAt(step) ==
  CASE step = "name"        -> NameTexts
    [] step = "goals"       -> GoalsTexts
    [] step = "preferences" -> PreferencesTexts

\* An answer has arrived at a step that validates and extracts.
InitValidators ==
  /\ profile = NewProfile
  /\ now = 0
  /\ last = [op |-> "none", via |-> "none", pre |-> NewProfile, input |-> <<>>,
             result |-> EmptyDict, validator_ran |-> FALSE]
  /\ skills = <<>>
  /\ \E step \in ExtractorSteps : \E text \in AnswersAt(step) :
       call = [op |-> "answer", step |-> step, text |-> text]
  /\ agent = IdleAgent
  /\ proc = [base |-> NewProfile, req |-> [r \in Requests |-> IdleRequest]]

\* The extractor of the goals step applied to the answer.
ExtractGoals ==
  /\ call.op = "answer"
  /\ call.step = "goals"
  /\ call' = [op |-> "extract_goals", text |-> call.text, goals |-> extract_goals(call.text)]
  /\ UNCHANGED <<profile, now, last, skills, agent, proc>>

\* Lines 207-221 of _handle_process_response: the validator of the step, and
\* the extractor of the step when the validator accepts.
ValidateThenExtract ==
  /\ call.op = "answer"
  /\ \E verdict \in {STEP_VALIDATORS(call.step, call.text)} :
       call' = [op |-> "validate_then_extract", step |-> call.step, text |-> call.text,
                is_valid |-> verdict.is_valid,
                extracted_data |-> IF verdict.is_valid
                                   THEN STEP_EXTRACTORS(call.step, call.text)
                                   ELSE EmptyDict]
  /\ UNCHANGED <<profile, now, last, skills, agent, proc>>

NextValidators ==
  \/ ExtractGoals
  \/ ValidateThenExtract

SpecValidators == InitValidators /\ [][NextValidators]_vars

(* ------------------- one onboarding session, answered ------------------ *)
\* A user starts the onboarding and answers each prompt; an answer may be
\* rejected and the prompt repeated.  No skip, reset or timeout happens.
\* call counts the answers of the session, the rejected ones up to MaxRejected
\* and the accepted ones up to MaxAccepted.
MaxRejected == 2
MaxAccepted == 6

StartSession ==
  /\ profile.onboarding_status = "NOT_STARTED"
  /\ call.op = "none"
  /\ \E h \in {skill_execute("start", profile, <<>>, now)} :
       /\ profile' = h.profile
       /\ last' = Called("start", "skill", profile, <<>>, h)
  /\ call' = [op |-> "session", valid |-> 0, rejected |-> 0]
  /\ UNCHANGED <<now, skills, agent, proc>>

\* The user answers the prompt and the skill reports the answer valid.
AnswerAccepted ==
  /\ profile.onboarding_status = "IN_PROGRESS"
  /\ call.op = "session"
  /\ call.valid < MaxAccepted
  /\ \E text \in UserResponses :
       \E h \in {skill_execute("process_response", profile, text, now)} :
         /\ h.result.success
         /\ h.result.data.d["is_valid"]
         /\ profile' = h.profile
         /\ last' = Called("process_response", "skill", profile, text, h)
  /\ call' = [call EXCEPT !.valid = call.valid + 1]
  /\ UNCHANGED <<now, skills, agent, proc>>

\* The user answers the prompt and the skill does not report the answer valid.
AnswerRejected ==
  /\ profile.onboarding_status = "IN_PROGRESS"
  /\ call.op = "session"
  /\ call.rejected < MaxRejected
  /\ \E text \in UserResponses :
       \E h \in {skill_execute("process_response", profile, text, now)} :
         /\ ~(h.result.success /\ h.result.data.d["is_valid"])
         /\ profile' = h.profile
         /\ last' = Called("process_response", "skill", profile, text, h)
  /\ call' = [call EXCEPT !.rejected = call.rejected + 1]
  /\ UNCHANGED <<now, skills, agent, proc>>

NextSession ==
  \/ StartSession
  \/ AnswerAccepted
  \/ AnswerRejected

\* Every prompt eventually receives an answer the skill accepts.
SpecSession == Init /\ [][NextSession]_vars /\ WF_vars(AnswerAccepted)

(* ===================== onboarding: serial properties =================== *)

\* The successor of each step in the fixed sequence, stated independently of
\* the tables of the code.
SuccessorOf ==
  [s \in {"welcome", "name", "goals", "preferences"} |->
     CASE s = "welcome" -> "name" [] s = "name" -> "goals"
       [] s = "goals" -> "preferences" [] s = "preferences" -> "conclusion"]

\* The last call was process_response and it reported the answer as valid.
ReportedValid ==
  /\ last.op = "process_response"
  /\ \/ last.via = "skill" /\ last.result.success /\ last.result.data.d["is_valid"]
     \/ last.via = "api" /\ last.result.status_code = 200
                         /\ last.result.body["is_step_complete"]

\* C3: from IN_PROGRESS, a process_response whose answer is valid for the
\* current step moves current_step to its immediate successor (welcome, name,
\* goals, preferences, conclusion in that order) and from conclusion to
\* COMPLETED; next(step) is defined for every step except conclusion.
C3_StepSequence ==
  /\ \A s \in DOMAIN SuccessorOf : get_next_step(s) = SuccessorOf[s]
  /\ get_next_step("conclusion") = NoneStr
  /\ (ReportedValid /\ last.pre.onboarding_status = "IN_PROGRESS") =>
       IF last.pre.onboarding_current_step = "conclusion"
       THEN /\ profile.onboarding_status = "COMPLETED"
            /\ profile.onboarding_completed_at # NoneTime
       ELSE /\ profile.onboarding_status = "IN_PROGRESS"
            /\ profile.onboarding_current_step = SuccessorOf[last.pre.onboarding_current_step]

C3_Witness ==
  /\ ReportedValid
  /\ last.pre.onboarding_status = "IN_PROGRESS"
  /\ last.pre.onboarding_current_step = "conclusion"
  /\ profile.onboarding_status = "COMPLETED"
  /\ "conversation_history" \in DOMAIN profile.onboarding_data.d
  /\ Len(profile.onboarding_data.d["conversation_history"]) = 3

ValidatedSteps == {"name", "goals", "preferences"}

\* The last call was a process_response that reached the validator of a
\* validated step with an answer the validator rejects.
RejectedAnswer ==
  /\ last.op = "process_response"
  /\ last.pre.onboarding_current_step \in ValidatedSteps
  /\ last.via = "api" => last.pre.onboarding_status = "IN_PROGRESS"
  /\ ~ValidatorTable[last.pre.onboarding_current_step][last.input].is_valid

\* C4: an answer rejected by the validator of a validated step leaves the
\* whole record unchanged and is reported with is_valid = false, a non-empty
\* validation error and no next step.
C4_InvalidLeavesRecord ==
  RejectedAnswer =>
    /\ profile = last.pre
    /\ IF last.via = "skill"
       THEN /\ last.result.success
            /\ ~last.result.data.d["is_valid"]
            /\ last.result.data.d["validation_error"] \notin {NoneStr, ""}
            /\ last.result.data.d["next_step"] = NoneStr
       ELSE /\ last.result.status_code = 200
            /\ ~last.result.body["is_step_complete"]
            /\ last.result.body["validation_error"] \notin {NoneStr, ""}
            /\ last.result.body["next_step"] = NoneStr

C4_Witness ==
  /\ RejectedAnswer
  /\ last.pre.onboarding_current_step = "name"
  /\ last.input = T_long
  /\ profile.onboarding_current_step = "name"

\* C5 (as claimed): start on an IN_PROGRESS record changes nothing, through
\* the skill's start action and through POST /onboarding/start alike.
C5_StartIdempotentInProgress ==
  (last.op = "start" /\ last.pre.onboarding_status = "IN_PROGRESS") => profile = last.pre

C9_StartOnCompletedRefused ==
  (last.op = "start" /\ last.pre.onboarding_status = "COMPLETED") =>
    /\ profile = last.pre
    /\ IF last.via = "skill"
       THEN /\ ~last.result.success
            /\ last.result.data.isNone
            /\ last.result.error = "Onboarding already completed for this user"
       ELSE /\ last.result.status_code = 400
            /\ last.result.detail = "Onboarding already completed for this user"

C9_Witness ==
  /\ last.op = "start"
  /\ last.via = "skill"
  /\ last.pre.onboarding_status = "COMPLETED"
  /\ last.pre.onboarding_current_step = "conclusion"
  /\ ~last.result.success

\* C10: skip on a record that is not COMPLETED gives COMPLETED with a
\* completion timestamp and runs no validator; skip on a COMPLETED record is
\* refused and leaves the record, completed_at included, unchanged.
C10_Skip ==
  last.op = "skip" =>
    IF last.pre.onboarding_status # "COMPLETED"
    THEN /\ profile.onboarding_status = "COMPLETED"
         /\ profile.onboarding_completed_at # NoneTime
         /\ ~last.validator_ran
         /\ last.result.status_code = 200
    ELSE /\ profile = last.pre
         /\ last.result.status_code = 400

C10_Witness ==
  /\ last.op = "skip"
  /\ last.pre.onboarding_status = "IN_PROGRESS"
  /\ last.pre.onboarding_current_step = "goals"
  /\ profile.onboarding_status = "COMPLETED"
  /\ profile.onboarding_completed_at # NoneTime

(* ========================= skill layer: properties ===================== *)

\* C1: for a name that is registered when the lookup happens, execute
\* returns a SkillResult and does not raise, whatever the skill does; when
\* the skill's own execute raises, the result has success = false, no data,
\* and the error "<error kind>: <message>".
C1_ExecuteNeverRaises ==
  (call.op = "execute" /\ HasSkill(call.pre, call.skill_name)) =>
    /\ ~call.outcome.raised
    /\ call.outcome.result.success \in BOOLEAN
    /\ call.behaviour.kind = "raises" =>
         /\ ~call.outcome.result.success
         /\ call.outcome.result.data.isNone
         /\ Len(call.outcome.result.error) = 2 + Len(call.behaviour.message)
         /\ call.outcome.result.error[1] = call.behaviour.type
         /\ call.outcome.result.error[2] = ": "
         /\ SubSeq(call.outcome.result.error, 3, Len(call.outcome.result.error))
              = call.behaviour.message

C1_Witness ==
  /\ call.op = "execute"
  /\ HasSkill(call.pre, call.skill_name)
  /\ call.behaviour.kind = "raises"
  /\ call.behaviour.message = EmptyText
  /\ ~call.outcome.raised
  /\ ~call.outcome.result.success

\* C2: process_message returns a reply string and never raises, whatever the
\* context collaborator, the executor or skill, and the LLM collaborator do,
\* values of the wrong type included.
C2_ProcessMessageRepliesWithString ==
  agent.pc = "done" =>
    /\ ~agent.reply.raised
    /\ agent.reply.is_str

\* C7: for a name absent from the registry, execute raises
\* SkillExecutionError and invokes no skill; execute_with_fallback returns a
\* result with success = false whose error is the fallback message given, or
\* a default that names the skill, and it never raises.
C7_AbsentSkill ==
  /\ (call.op = "execute" /\ ~HasSkill(call.pre, call.skill_name)) =>
       /\ call.outcome.raised
       /\ call.outcome.type = "SkillExecutionError"
       /\ call.outcome.invoked = <<>>
  /\ call.op = "execute_with_fallback" => ~call.outcome.raised
  /\ (call.op = "execute_with_fallback" /\ ~HasSkill(call.pre, call.skill_name)) =>
       /\ ~call.outcome.result.success
       /\ call.outcome.invoked = <<>>
       /\ IF call.fallback_message # NoText
          THEN call.outcome.result.error = call.fallback_message
          ELSE \E i \in 1..Len(call.outcome.result.error) :
                 call.outcome.result.error[i] = call.skill_name

C7_Witness ==
  /\ call.op = "execute_with_fallback"
  /\ ~HasSkill(call.pre, call.skill_name)
  /\ Len(call.pre) > 0
  /\ call.fallback_message = NoText
  /\ ~call.outcome.result.success

(* ==================== onboarding: concurrent properties ================ *)

\* The row two process_response calls leave when one runs after the other.
SerialOutcome(p, first, second, t) ==
  handle_process_response(handle_process_response(p, first, t).profile, second, t).profile

\* C6: every interleaving of two concurrent process_response calls of one
\* user leaves the record that some serial execution of the two calls leaves.
C6_DoubleSubmitSerializable ==
  (\A r \in Requests : proc.req[r].pc = "done") =>
    \/ profile = SerialOutcome(proc.base, proc.req[1].user_response,
                               proc.req[2].user_response, now)
    \/ profile = SerialOutcome(proc.base, proc.req[2].user_response,
                               proc.req[1].user_response, now)

(* ================= onboarding: timeout and reset properties ============ *)

\* The session of the record was started strictly more than max_days before t.
StartedMoreThan(p, max_days, t) ==
  /\ p.onboarding_status = "IN_PROGRESS"
  /\ p.onboarding_started_at # NoneTime
  /\ t - p.onboarding_started_at > max_days

\* C11: check_session_timeout(max_days) resets the record to NOT_STARTED with
\* current_step, started_at and the collected data cleared, and reports true,
\* exactly when the status is IN_PROGRESS and the session started strictly
\* more than max_days ago; otherwise it reports false and changes no field.
C11_SessionTimeout ==
  last.op = "check_session_timeout" =>
    IF StartedMoreThan(last.pre, last.result.max_days, last.result.at)
    THEN /\ last.result.was_reset
         /\ profile.onboarding_status = "NOT_STARTED"
         /\ profile.onboarding_current_step = NoneStr
         /\ profile.onboarding_started_at = NoneTime
         /\ profile.onboarding_data.isNone
    ELSE /\ ~last.result.was_reset
         /\ profile = last.pre

\* A session exactly max_days old is left alone.
C11_Witness ==
  /\ last.op = "check_session_timeout"
  /\ last.pre.onboarding_status = "IN_PROGRESS"
  /\ last.result.max_days = 1
  /\ last.result.at - last.pre.onboarding_started_at = 1
  /\ ~last.result.was_reset
  /\ profile = last.pre

\* C12: reset applied in any state ends in NOT_STARTED with current_step,
\* started_at, completed_at and the collected data all null, and a start
\* that follows succeeds.
C12_Reset ==
  /\ last.op = "reset" =>
       /\ profile.onboarding_status = "NOT_STARTED"
       /\ profile.onboarding_current_step = NoneStr
       /\ profile.onboarding_started_at = NoneTime
       /\ profile.onboarding_completed_at = NoneTime
       /\ profile.onboarding_data.isNone
       /\ ~start_onboarding(profile, now).raised
       /\ start_onboarding(profile, now).profile.onboarding_status = "IN_PROGRESS"
  /\ (last.op = "start" /\ last.pre = reset_onboarding(last.pre)) =>
       /\ profile.onboarding_status = "IN_PROGRESS"
       /\ profile.onboarding_current_step = "welcome"

C12_Witness ==
  /\ last.op = "reset"
  /\ last.pre.onboarding_status = "COMPLETED"
  /\ last.pre.onboarding_completed_at # NoneTime
  /\ ~last.pre.onboarding_data.isNone
  /\ profile.onboarding_status = "NOT_STARTED"

C14_RegisterUnregister ==
  /\ (call.op = "register" /\ HasSkill(call.pre, call.skill.name)) =>
       /\ call.raised
       /\ skills = call.pre
       /\ get_skill(skills, call.skill.name) = get_skill(call.pre, call.skill.name)
       /\ Len(skills) = Len(call.pre)
  /\ (call.op = "register" /\ ~HasSkill(call.pre, call.skill.name)) =>
       /\ ~call.raised
       /\ get_skill(skills, call.skill.name) = call.skill
       /\ Len(skills) = Len(call.pre) + 1
  /\ call.op = "unregister" =>
       /\ ~call.raised
       /\ ~HasSkill(skills, call.skill_name)
       /\ ~HasSkill(call.pre, call.skill_name) => skills = call.pre
       /\ \A instance \in Instances :
            /\ ~register(skills, Skill(call.skill_name, instance)).raised
            /\ get_skill(register(skills, Skill(call.skill_name, instance)).skills,
                         call.skill_name) = Skill(call.skill_name, instance)

\* A second instance of a registered class is refused.
C14_Witness ==
  /\ call.op = "register"
  /\ call.raised
  /\ Len(call.pre) = 2
  /\ get_skill(skills, call.skill.name).instance # call.skill.instance

(* ========================== orchestrator: properties =================== *)

\* The action of the call has been decided.
ActionDecided == agent.pc \in {"execute_skill", "respond", "done"}

\* The timezone the context carries for the user, UTC when it carries none.
ContextTimezone ==
  IF agent.context_service = "with_timezone" THEN "America/Sao_Paulo" ELSE "UTC"

\* C15: _decide_action tries the categories in the order time/date,
\* preferences, calendar and the first match wins: a time/date keyword gives
\* SKILL_CALL get_current_date with the timezone of the context (UTC when
\* absent) whatever else the message contains; otherwise a preference
\* keyword gives get_user_preferences; otherwise a calendar keyword gives
\* get_calendar_events with days_ahead = 7; otherwise DIRECT_RESPONSE with no
\* skill name.  The context is a dict whose user entry, when present, is a dict.
C15_DecideAction ==
  (ActionDecided /\ UserEntryReadable(agent.context)) =>
    CASE agent.message \in {M_time, M_calendar_date} ->
           /\ agent.action.type = "skill_call"
           /\ agent.action.skill_name = "get_current_date"
           /\ agent.action.skill_args = [timezone |-> ContextTimezone]
      [] agent.message \in {M_settings, M_settings_events} ->
           /\ agent.action.type = "skill_call"
           /\ agent.action.skill_name = "get_user_preferences"
      [] agent.message = M_agenda ->
           /\ agent.action.type = "skill_call"
           /\ agent.action.skill_name = "get_calendar_events"
           /\ agent.action.skill_args["days_ahead"] = 7
      [] agent.message = M_hello ->
           /\ agent.action.type = "direct_response"
           /\ agent.action.skill_name = NoneStr

\* A message with a calendar keyword and a date keyword goes to get_current_date.
C15_Witness ==
  /\ ActionDecided
  /\ agent.message = M_calendar_date
  /\ agent.context_service = "with_timezone"
  /\ agent.action.skill_name = "get_current_date"
  /\ agent.action.skill_args["timezone"] = "America/Sao_Paulo"

\* The collaborator was used during the call.
Used(collaborator) == \E i \in 1..Len(agent.trace) : agent.trace[i] = collaborator

\* The routed skill call of a finished process_message failed.
SkillCallFailed ==
  /\ agent.pc = "done"
  /\ agent.action.type = "skill_call"
  /\ Used("executor")
  /\ ~agent.skill_result.success

ApologyPrefix == "I apologize, but I encountered an error while trying to help you: "

\* C16: when the routed skill call fails (name unknown to the registry, skill
\* raised, or skill returned success = false) process_message replies with
\* the apology template followed by the error text, does not call the LLM
\* collaborator, and raises nothing.
C16_SkillFailureReply ==
  SkillCallFailed =>
    /\ ~agent.reply.raised
    /\ agent.reply.is_str
    /\ ~Used("llm")
    /\ agent.reply.text[1] = ApologyPrefix
    /\ ~IsFalsyText(agent.skill_result.error) =>
         SubSeq(agent.reply.text, 2, Len(agent.reply.text)) = agent.skill_result.error
    /\ agent.invoked = <<>> =>
         \E i \in 2..Len(agent.reply.text) : agent.reply.text[i] = agent.action.skill_name
    /\ (agent.invoked # <<>> /\ agent.behaviour.kind = "raises") =>
         /\ agent.reply.text[2] = agent.behaviour.type
         /\ SubSeq(agent.reply.text, 4, Len(agent.reply.text)) = agent.behaviour.message
    /\ (agent.invoked # <<>> /\ agent.behaviour.kind = "returns") =>
         agent.behaviour.result = agent.skill_result

\* The skill is registered and raises.
C16_Witness ==
  /\ SkillCallFailed
  /\ agent.invoked # <<>>
  /\ agent.behaviour.kind = "raises"
  /\ agent.behaviour.type = "ValueError"
  /\ agent.reply.text[1] = ApologyPrefix

\* What json.dumps (or str) makes of the data of a successful result.
SerializedData(data) ==
  IF data.isNone THEN <<"No data returned">>
  ELSE IF "formatted" \in DOMAIN data.d
  THEN <<"{\n  \"formatted\": \"", data.d["formatted"], "\"\n}">>
  ELSE <<"{'object': ", data.d["object"], "}">>

\* C17: when the LLM collaborator fails, the reply is the fallback of the
\* step and not the top-level fallback: after a successful skill call it is
\* "Here's what I found:" followed by the serialized result; on a direct
\* response it is the fixed generic apology.
C17_LLMFailureReply ==
  (agent.pc = "done" /\ agent.llm_service = "raises") =>
    /\ agent.reply.is_str
    /\ agent.reply.text # get_fallback_error_message
    /\ IF agent.action.type = "skill_call"
       THEN /\ agent.skill_result.success
            /\ agent.reply.text =
                 <<"Here's what I found:\n">> \o SerializedData(agent.skill_result.data)
       ELSE agent.reply.text =
              <<"I apologize, but I'm having trouble generating a response right now.">>

C17_Witness ==
  /\ agent.pc = "done"
  /\ agent.llm_service = "raises"
  /\ agent.action.type = "skill_call"
  /\ agent.skill_result.success
  /\ ~agent.skill_result.data.isNone
  /\ agent.reply.text[1] = "Here's what I found:\n"

\* The context that holds the user id and nothing else.
OnlyUserId == DictData([user |-> DictData([id |-> UserId])])

\* C18: when the context collaborator fails, or has no context-building
\* method, process_message goes on with a context that holds only the user
\* id; routing, execution and response still run, with the action that the
\* message gets under that context.
C18_ContextFailure ==
  (ActionDecided /\ agent.context_service \in {"raises", "no_method"}) =>
    /\ agent.context = OnlyUserId
    /\ agent.action = decide_action(agent.message, OnlyUserId).action
    /\ agent.action.type = "skill_call" =>
         /\ agent.pc \in {"respond", "done"} => Used("executor")
         /\ "user_id" \in DOMAIN agent.action.skill_args =>
              agent.action.skill_args["user_id"] = UserId
         /\ "timezone" \in DOMAIN agent.action.skill_args =>
              agent.action.skill_args["timezone"] = "UTC"
    /\ (agent.pc = "done" /\ agent.action.type = "direct_response") => Used("llm")
    /\ (agent.pc = "done" /\ agent.skill_result.success) => Used("llm")

C18_Witness ==
  /\ agent.pc = "done"
  /\ agent.context_service = "raises"
  /\ agent.action.skill_name = "get_user_preferences"
  /\ agent.action.skill_args["user_id"] = UserId
  /\ agent.skill_result.success
  /\ Used("llm")

\* The place of each collaborator in the order of use.
CollaboratorRank ==
  [c \in {"context", "executor", "llm"} |->
     CASE c = "context" -> 1 [] c = "executor" -> 2 [] c = "llm" -> 3]

C20_FailureCarriesError ==
  (/\ call.op \in {"execute", "execute_with_fallback"}
   /\ ~call.outcome.raised
   /\ ~call.outcome.result.success)
    => ~IsFalsyText(call.outcome.result.error)


(* ------------------------------- C21 ----------------------------------- *)
\* The progress table of the claim, stated independently of STEP_PROGRESS.
ProgressOf ==
  [s \in {"welcome", "name", "goals", "preferences", "conclusion"} |->
     CASE s = "welcome" -> 0 [] s = "name" -> 20 [] s = "goals" -> 40
       [] s = "preferences" -> 60 [] s = "conclusion" -> 80]

\* The progress percentage the last get_status call reported.
ReportedProgress ==
  IF last.via = "skill" THEN last.result.data.d["progress_percent"]
  ELSE last.result.body["progress_percent"]

\* get_status leaves the record as it was and reports 100 exactly when the
\* status is COMPLETED, 0 when NOT_STARTED, the table value otherwise.
GetStatusIsPureRead ==
  last.op = "get_status" =>
    /\ profile = last.pre
    /\ (ReportedProgress = 100) <=> (profile.onboarding_status = "COMPLETED")
    /\ profile.onboarding_status = "NOT_STARTED" => ReportedProgress = 0
    /\ profile.onboarding_status = "IN_PROGRESS" =>
         ReportedProgress = ProgressOf[profile.onboarding_current_step]

\* C21 (as claimed): get_status changes no field of the record and reports
\* 100 exactly when COMPLETED, 0 when NOT_STARTED and the table value of the
\* current step otherwise, so that the progress of the record strictly
\* increases with every process_response reported valid.
C21_GetStatusProgress ==
  /\ GetStatusIsPureRead
  /\ ReportedValid =>
       get_onboarding_state(profile).progress_percent
         > get_onboarding_state(last.pre).progress_percent

(* ------------------------------- C22 ----------------------------------- *)
\* The conversation history held in a collected-data mapping.
HistoryOf(d) ==
  IF "conversation_history" \in DOMAIN d THEN d["conversation_history"] ELSE <<>>

\* The effect the claim gives a valid answer at an extracting step: every
\* extracted field is stored, every other collected key keeps its value, no
\* key goes away, and the history grows by one entry at its end.
MergedAndAppended(pre, post, step, text, t) ==
  /\ DOMAIN post = DOMAIN pre \cup DOMAIN ExtractorTable[step][text]
                     \cup {"conversation_history"}
  /\ \A k \in DOMAIN ExtractorTable[step][text] : post[k] = ExtractorTable[step][text][k]
  /\ \A k \in DOMAIN pre \ (DOMAIN ExtractorTable[step][text] \cup {"conversation_history"}) :
       post[k] = pre[k]
  /\ post["conversation_history"] =
       Append(HistoryOf(pre), [step |-> step, timestamp |-> t, user_response |-> text])

\* C22: a process_response reported valid at an extracting step (name, goals,
\* preferences) merges the extracted fields into the collected data without
\* removing a collected key and appends exactly one entry {step, timestamp,
\* raw response} to the end of conversation_history; a process_response at
\* welcome or conclusion, and any one not reported valid, leaves the collected
\* data and the history as they were.
C22_MergeAndAppend ==
  [][(last'.op = "process_response" /\ now' = now) =>
       IF ReportedValid' /\ profile.onboarding_current_step \in {"name", "goals", "preferences"}
       THEN /\ ~profile'.onboarding_data.isNone
            /\ MergedAndAppended(profile.onboarding_data.d, profile'.onboarding_data.d,
                                 profile.onboarding_current_step, last'.input, now)
       ELSE profile'.onboarding_data = profile.onboarding_data]_vars

C22_Witness ==
  /\ ReportedValid
  /\ last.pre.onboarding_current_step = "goals"
  /\ last.input = T_goals_comma
  /\ "name" \in DOMAIN last.pre.onboarding_data.d
  /\ DOMAIN profile.onboarding_data.d = {"name", "goals", "conversation_history"}
  /\ Len(profile.onboarding_data.d["conversation_history"]) = 2

(* ------------------------------- C23 ----------------------------------- *)
\* The names of a listing, in its order.
NamesOf(listing) == [i \in 1..Len(listing) |-> listing[i].name]

\* The names of the registered skills in registration order, kept from call
\* to call: a successful register puts its name last, an unregister takes its
\* name out and leaves the others in place.
RegistrationOrderKept ==
  /\ (call.op = "register" /\ ~call.raised) =>
       NamesOf(list_skills(skills)) =
         Append(NamesOf(list_skills(call.pre)), call.skill.name)
  /\ call.op = "unregister" =>
       NamesOf(list_skills(skills)) =
         SelectSeq(NamesOf(list_skills(call.pre)), LAMBDA n : n # call.skill_name)

\* C23: list_skills and get_tool_definitions each enumerate every registered
\* skill exactly once, in registration order (a skill unregistered and
\* registered again is last), and each tool definition is
\* {type: "function", function: {name, description, parameters}} with the
\* name, description and parameters of its skill.
C23_Listings ==
  /\ RegistrationOrderKept
  /\ call.op = "list_skills" =>
       /\ Len(call.listed) = Len(skills)
       /\ \A s \in SkillNames :
            HasSkill(skills, s) <=>
              Cardinality({i \in 1..Len(call.listed) : call.listed[i].name = s}) = 1
       /\ \A i \in 1..Len(call.listed) :
            call.listed[i] = [name        |-> skills[i].name,
                              description |-> description(skills[i]),
                              parameters  |-> parameters(skills[i])]
  /\ call.op = "get_tool_definitions" =>
       /\ Len(call.listed) = Len(skills)
       /\ \A s \in SkillNames :
            HasSkill(skills, s) <=>
              Cardinality({i \in 1..Len(call.listed) :
                             call.listed[i].function.name = s}) = 1
       /\ \A i \in 1..Len(call.listed) :
            /\ DOMAIN call.listed[i] = {"type", "function"}
            /\ call.listed[i].type = "function"
            /\ DOMAIN call.listed[i].function = {"name", "description", "parameters"}
            /\ call.listed[i].function.name = skills[i].name
            /\ call.listed[i].function.description = description(skills[i])
            /\ call.listed[i].function.parameters = parameters(skills[i])

C23_Witness ==
  /\ call.op = "get_tool_definitions"
  /\ Len(call.listed) = 3
  /\ call.listed[1].function.name = "get_user_preferences"
  /\ call.listed[3].function.name = "get_calendar_events"

(* ------------------------------- C24 ----------------------------------- *)
\* The starts of the occurrences of sep in s, left to right and not
\* overlapping, from position i on.
RECURSIVE MatchStarts(_, _, _)
MatchStarts(s, sep, i) ==
  IF i + Len(sep) - 1 > Len(s) THEN <<>>
  ELSE IF SubSeq(s, i, i + Len(sep) - 1) = sep
       THEN <<i>> \o MatchStarts(s, sep, i + Len(sep))
       ELSE MatchStarts(s, sep, i + 1)

\* The stretches of s between the occurrences of sep.
Pieces(s, sep) ==
  LET m == MatchStarts(s, sep, 1)
  IN  [k \in 1..(Len(m) + 1) |->
         SubSeq(s, IF k = 1 THEN 1 ELSE m[k - 1] + Len(sep),
                   IF k = Len(m) + 1 THEN Len(s) ELSE m[k] - 1)]

\* The one separator the claim chooses for a trimmed text: the comma, else
\* the conjunction, else the newline, else none.
ChosenSeparator(trimmed) ==
  IF MatchStarts(trimmed, <<",">>, 1) # <<>> THEN <<",">>
  ELSE IF MatchStarts(trimmed, <<" ","e"," ">>, 1) # <<>> THEN <<" ","e"," ">>
  ELSE IF MatchStarts(trimmed, <<"\n">>, 1) # <<>> THEN <<"\n">>
  ELSE <<>>

\* The items of the claim: the trimmed text itself without a separator, else
\* its pieces between the chosen separator, trimmed, in order, blank ones left out.
ItemsOf(text) ==
  LET trimmed == strip(text)
      sep     == ChosenSeparator(trimmed)
  IN  IF sep = <<>> THEN <<trimmed>>
      ELSE SelectSeq([k \in 1..Len(Pieces(trimmed, sep)) |-> strip(Pieces(trimmed, sep)[k])],
                     LAMBDA g : g # <<>>)

\* C24: extract_goals splits the trimmed input on exactly one separator,
\* chosen by priority (comma, else " e ", else newline), or keeps the whole
\* trimmed input as the single item; the items are trimmed and in input
\* order, and "Crescer na carreira, melhorar saúde" gives the two items
\* "Crescer na carreira" and "melhorar saúde".
C24_ExtractGoals ==
  call.op = "extract_goals" =>
    /\ call.goals = ItemsOf(call.text)
    /\ \A i \in 1..Len(call.goals) : call.goals[i] = strip(call.goals[i])
    /\ call.text = T_goals_example =>
         call.goals = <<SubSeq(T_goals_example, 1, 19), SubSeq(T_goals_example, 22, 35)>>

C24_Witness ==
  /\ call.op = "extract_goals"
  /\ call.text = <<"a", " ", "e", " ", ",">>
  /\ call.goals = << <<"a", " ", "e">> >>

(* ------------------------------- C25 ----------------------------------- *)
\* C25 (as claimed): once the status is COMPLETED, no call of start,
\* process_response, get_status, skip or check_session_timeout changes the
\* status, the current step, the completion timestamp or the collected data.
C25_CompletedAbsorbing ==
  (/\ last.op \in {"start", "process_response", "get_status", "skip",
                   "check_session_timeout"}
   /\ last.pre.onboarding_status = "COMPLETED") =>
    /\ profile.onboarding_status = "COMPLETED"
    /\ profile.onboarding_current_step = last.pre.onboarding_current_step
    /\ profile.onboarding_completed_at = last.pre.onboarding_completed_at
    /\ profile.onboarding_data = last.pre.onboarding_data

(* ------------------------------- C26 ----------------------------------- *)
\* C26: in every record reachable from a new user's by start,
\* process_response, get_status, skip, reset and check_session_timeout:
\* IN_PROGRESS implies current_step is one of the five steps, started_at is
\* set and completed_at is null; NOT_STARTED implies current_step, started_at
\* and completed_at are all null; COMPLETED implies completed_at is set.
C26_RecordInvariant ==
  /\ profile.onboarding_status \in {"NOT_STARTED", "IN_PROGRESS", "COMPLETED"}
  /\ profile.onboarding_status = "IN_PROGRESS" =>
       /\ profile.onboarding_current_step \in
            {"welcome", "name", "goals", "preferences", "conclusion"}
       /\ profile.onboarding_started_at # NoneTime
       /\ profile.onboarding_completed_at = NoneTime
  /\ profile.onboarding_status = "NOT_STARTED" =>
       /\ profile.onboarding_current_step = NoneStr
       /\ profile.onboarding_started_at = NoneTime
       /\ profile.onboarding_completed_at = NoneTime
  /\ profile.onboarding_status = "COMPLETED" =>
       profile.onboarding_completed_at # NoneTime

C26_Witness ==
  /\ last.op = "start"
  /\ last.pre.onboarding_status = "NOT_STARTED"
  /\ last.pre.onboarding_data = NoneData
  /\ profile.onboarding_status = "IN_PROGRESS"
  /\ profile.onboarding_started_at = MaxTime

(* ------------------------------- C27 ----------------------------------- *)
\* Some answer is accepted at the current step.
SomeAnswerAccepted ==
  \E text \in UserResponses :
    /\ skill_execute("process_response", profile, text, now).result.success
    /\ skill_execute("process_response", profile, text, now).result.data.d["is_valid"]

\* C27: when every prompted step eventually receives an answer its validator
\* accepts and no skip, reset or timeout intervenes, a started onboarding
\* eventually reaches COMPLETED, after exactly five valid process_response
\* calls, and no IN_PROGRESS state rejects or fails every answer.
C27_SessionCompletes ==
  /\ [](profile.onboarding_status = "COMPLETED" => call.valid = 5)
  /\ [](profile.onboarding_status = "IN_PROGRESS" => SomeAnswerAccepted)
  /\ (profile.onboarding_status = "IN_PROGRESS")
       ~> (profile.onboarding_status = "COMPLETED" /\ call.valid = 5)

C27_Witness ==
  /\ profile.onboarding_status = "COMPLETED"
  /\ call.op = "session"
  /\ call.valid = 5
  /\ call.rejected = MaxRejected
  /\ last.pre.onboarding_current_step = "conclusion"

(* ------------------------------- C28 ----------------------------------- *)
\* The next_step the last process_response reported.
ReportedNextStep ==
  IF last.via = "skill" THEN last.result.data.d["next_step"]
  ELSE last.result.body["next_step"]

\* C28 (as claimed): after every process_response reported valid, the
\* reported next_step equals the persisted current_step, and it is null
\* exactly when the persisted status became COMPLETED.
C28_NextStepIsCurrentStep ==
  ReportedValid =>
    /\ ReportedNextStep = profile.onboarding_current_step
    /\ (ReportedNextStep = NoneStr) <=>
         (/\ profile.onboarding_status = "COMPLETED"
          /\ last.pre.onboarding_status # "COMPLETED")

\* C28 (amended): after every process_response reported valid, a reported
\* next_step that is not null equals the persisted current_step; the reported
\* next_step is null exactly when the step answered was conclusion, and then
\* the persisted status is COMPLETED and current_step is still conclusion.
C28_NextStepAgrees ==
  ReportedValid =>
    /\ ReportedNextStep # NoneStr => ReportedNextStep = profile.onboarding_current_step
    /\ (ReportedNextStep = NoneStr) <=> (last.pre.onboarding_current_step = "conclusion")
    /\ ReportedNextStep = NoneStr =>
         /\ profile.onboarding_status = "COMPLETED"
         /\ profile.onboarding_current_step = "conclusion"

C28_Witness ==
  /\ ReportedValid
  /\ last.via = "api"
  /\ last.pre.onboarding_status = "IN_PROGRESS"
  /\ last.pre.onboarding_current_step = "conclusion"
  /\ ReportedNextStep = NoneStr
  /\ profile.onboarding_status = "COMPLETED"
  /\ profile.onboarding_current_step = "conclusion"

(* ------------------------------- C29 ----------------------------------- *)
\* An accepted name gives a trimmed name of 2 to 100 characters.
AcceptedNameUsable ==
  (call.op = "validate_then_extract" /\ call.step = "name" /\ call.is_valid) =>
    /\ call.extracted_data["name"] = strip(call.extracted_data["name"])
    /\ Len(call.extracted_data["name"]) >= 2
    /\ Len(call.extracted_data["name"]) <= 100

\* An accepted goals text gives a list with an item, none of them empty.
AcceptedGoalsUsable ==
  (call.op = "validate_then_extract" /\ call.step = "goals" /\ call.is_valid) =>
    /\ Len(call.extracted_data["goals"]) >= 1
    /\ \A i \in 1..Len(call.extracted_data["goals"]) :
         call.extracted_data["goals"][i] # <<>>

\* An accepted preferences text gives a timezone and a language.
AcceptedPreferencesUsable ==
  (call.op = "validate_then_extract" /\ call.step = "preferences" /\ call.is_valid) =>
    /\ "timezone" \in DOMAIN call.extracted_data
    /\ "language" \in DOMAIN call.extracted_data
    /\ call.extracted_data["timezone"] # <<>>

\* C29 (as claimed): every answer the validator of a step accepts yields
\* usable data at that step: a trimmed name of 2 to 100 characters, a
\* non-empty list of non-empty goals, a mapping with a timezone and a language.
C29_AcceptedIsUsable ==
  /\ AcceptedNameUsable
  /\ AcceptedGoalsUsable
  /\ AcceptedPreferencesUsable

(* ------------------------------- C30 ----------------------------------- *)
\* The error the claim expects for a bad request.
ExpectedError(args) ==
  IF args.user_id.type = "NoneType" \/ args.user_id.value = ""
  THEN "Missing required field: user_id"
  ELSE IF args.action.type = "NoneType" THEN "Missing required field: action"
  ELSE IF args.user_id.type = "int" THEN "Skill execution failed"
  ELSE IF args.user_id.value = "not-a-uuid" THEN "Invalid UUID format"
  ELSE IF args.action.value = "delete" THEN "Unknown action"
  ELSE "User profile not found"

\* C30: SkillOnboardingShort.execute never raises and answers every bad
\* request with SkillResult(success = false) and the record as it was: a
\* missing user_id, a missing action, a user_id that is no UUID, an action
\* other than start, process_response and get_status, an unknown user, and a
\* process_response for a user whose onboarding has not been started
\* ("Onboarding not started").
C30_BadRequests ==
  /\ last.op = "execute" =>
       /\ ~last.raised
       /\ ~last.result.success
       /\ last.result.data = NoneData
       /\ last.result.error = ExpectedError(last.input)
       /\ profile = last.pre
  /\ (/\ last.op = "process_response"
      /\ last.via = "skill"
      /\ last.pre.onboarding_status = "NOT_STARTED") =>
       /\ ~last.result.success
       /\ last.result.error = "Onboarding not started"
       /\ profile = last.pre

C30_Witness ==
  /\ last.op = "execute"
  /\ last.input.user_id.type = "int"
  /\ last.pre.onboarding_status = "IN_PROGRESS"
  /\ last.pre.onboarding_current_step = "goals"
  /\ ~last.result.success
====
